---------------------------- MODULE Spec2Model ----------------------------
(***************************************************************************)
(* A model of the price tracker's scrape pipeline: the strategy registry   *)
(* (app/scrapers/scraper_factory.py), the fetcher with its retry loop      *)
(* (app/scrapers/base_scraper.py), the generic and the Amazon extraction   *)
(* strategies, the pydantic validation layer (app/models/schemas.py), the  *)
(* store (app/models/database.py) and the entry points that drive them.    *)
(*                                                                         *)
(* Text is a sequence of one-character strings.  A URL is a sequence of    *)
(* atoms ("https:", "//", "amazon", ".in", "/", ...): every substring      *)
(* test the code makes on a URL starts and ends on an atom boundary.       *)
(***************************************************************************)
EXTENDS Integers, Sequences, FiniteSets, TLC

VARIABLES
    registry,         \* ScraperFactory._registry, in insertion order
    products,         \* table products: the set of tracked URLs
    price_histories,  \* table price_histories: the set of stored records
    clock,            \* datetime.utcnow(), a logical clock
    pc,               \* where the running entry point stands
    entry,            \* the entry point that is running
    url,              \* its url argument
    scraper,          \* the instance get_scraper returned
    script,           \* what the site answers to the attempts of this fetch
    attempt,          \* _fetch_page: the loop variable
    calls,            \* _fetch_page: session.get calls made so far
    slept,            \* _fetch_page: seconds slept so far
    html,             \* _fetch_page's return value
    error,            \* the exception raised, if any
    product_data,     \* scrape()'s return value
    ret,              \* the entry point's return value
    heap,             \* the header dicts alive: DEFAULT_HEADERS and the instances' own
    workers           \* concurrent workers: the scrape each of them is running

vars == <<registry, products, price_histories, clock, pc, entry, url, scraper,
          script, attempt, calls, slept, html, error, product_data, ret, heap,
          workers>>

\* Python's None, where an object is expected
None == [none |-> TRUE]

\* --------------------------------------------------------------------------
(* Bounds of the model. *)

\* the user-agent pool is cut to its first NumUserAgents entries
NumUserAgents == 2
\* add_price calls explored per behaviour
MaxWrites == 1
\* keys the registry holds at most
MaxRegistry == 4

\* --------------------------------------------------------------------------
(* Text. *)

Min(S) == CHOOSE x \in S : \A y \in S : x <= y

IsPrefixAt(sub, s, i) ==
    /\ i + Len(sub) - 1 <= Len(s)
    /\ \A j \in 1..Len(sub) : s[i + j - 1] = sub[j]

\* Python: sub in s
Contains(sub, s) == \E i \in 1..(Len(s) + 1) : IsPrefixAt(sub, s, i)

\* Python: s.startswith(sub)
StartsWith(s, sub) == IsPrefixAt(sub, s, 1)

Upper == <<"A", "B", "C", "D", "E", "F", "G", "H", "I", "J", "K", "L", "M",
           "N", "O", "P", "Q", "R", "S", "T", "U", "V", "W", "X", "Y", "Z">>
Lowercase == <<"a", "b", "c", "d", "e", "f", "g", "h", "i", "j", "k", "l", "m",
           "n", "o", "p", "q", "r", "s", "t", "u", "v", "w", "x", "y", "z">>

LowerChar(c) ==
    IF \E i \in 1..26 : Upper[i] = c
    THEN Lowercase[CHOOSE i \in 1..26 : Upper[i] = c]
    ELSE c

\* Python: s.lower()
Lower(s) == [i \in 1..Len(s) |-> LowerChar(s[i])]

IsSpace(c) == c \in {" ", "\n", "\t"}

\* Python: s.strip()
Strip(s) ==
    LET keep == {i \in 1..Len(s) : ~IsSpace(s[i])}
    IN  IF keep = {} THEN << >>
        ELSE SubSeq(s, Min(keep), CHOOSE x \in keep : \A y \in keep : y <= x)

RECURSIVE Concat(_)
Concat(ss) == IF ss = << >> THEN << >> ELSE Head(ss) \o Concat(Tail(ss))

\* --------------------------------------------------------------------------
(* URLs. *)

HttpSchemes == {"http:", "https:"}
Schemes == HttpSchemes \cup {"ftp:"}
Delims == {"/", "?", "#"}

\* url.startswith(("http://", "https://"))
HasHttpPrefix(u) == Len(u) >= 2 /\ u[1] \in HttpSchemes /\ u[2] = "//"

\* urlparse(url).netloc: what follows "//" (after the scheme, if any) up to the
\* first of "/", "?", "#"
Netloc(u) ==
    LET s == IF Len(u) >= 1 /\ u[1] \in Schemes THEN 2 ELSE 1
    IN  IF Len(u) >= s /\ u[s] = "//"
        THEN LET ends == {i \in (s + 1)..Len(u) : u[i] \in Delims}
                 last == IF ends = {} THEN Len(u) ELSE Min(ends) - 1
             IN  SubSeq(u, s + 1, last)
        ELSE << >>

\* --------------------------------------------------------------------------
(* The strategy registry: scraper_factory.py. *)

\* amazon_scraper.DOMAIN = ["amazon.com", "amazon.in"]
AmazonDOMAIN == [isList |-> TRUE, keys |-> << <<"amazon", ".com">>, <<"amazon", ".in">> >>]

\* cls._registry[single_domain] = scraper_class: a dict keeps a key's first
\* position when the key is assigned again
SetItem(reg, key, cls) ==
    IF \E i \in 1..Len(reg) : reg[i].key = key
    THEN [i \in 1..Len(reg) |->
            IF reg[i].key = key THEN [key |-> key, cls |-> cls] ELSE reg[i]]
    ELSE Append(reg, [key |-> key, cls |-> cls])

RECURSIVE SetItems(_, _, _)
SetItems(reg, keys, cls) ==
    IF keys = << >> THEN reg
    ELSE SetItems(SetItem(reg, Head(keys), cls), Tail(keys), cls)

\* ScraperFactory.register(domain, scraper_class)
register(reg, domain, cls) ==
    IF domain.isList THEN SetItems(reg, domain.keys, cls)
    ELSE SetItem(reg, domain.key, cls)

\* discover_scrapers(): amazon_scraper.py is the one module that is neither
\* base_scraper.py nor generic_scraper.py
discover_scrapers(reg) == register(reg, AmazonDOMAIN, "Scraper")

\* ScraperClassFrom returning the class the loop saw last instead of falling
\* back: the loop variable used after the loop
ScraperClassLeak(reg, domain, i) ==
    IF \E j \in i..Len(reg) : Contains(reg[j].key, domain)
    THEN reg[Min({j \in i..Len(reg) : Contains(reg[j].key, domain)})].cls
    ELSE IF reg = << >> THEN "GenericScraper" ELSE reg[Len(reg)].cls

\* ScraperClassFrom without the early return: the last matching key wins
ScraperClassLastMatch(reg, domain, i) ==
    IF \E j \in i..Len(reg) : Contains(reg[j].key, domain)
    THEN reg[CHOOSE j \in i..Len(reg) :
               /\ Contains(reg[j].key, domain)
               /\ \A k \in i..Len(reg) : Contains(reg[k].key, domain) => k <= j].cls
    ELSE "GenericScraper"

\* get_scraper's loop over cls._registry.items(), from entry i on.  (Its
\* isinstance(registered_domain, list) branch is never taken: register stores
\* every member of a list under its own key.)
RECURSIVE ScraperClassFrom(_, _, _)
ScraperClassFrom(reg, domain, i) ==
    IF i > Len(reg) THEN "GenericScraper"
    ELSE IF Contains(reg[i].key, domain) THEN reg[i].cls
    ELSE ScraperClassFrom(reg, domain, i + 1)

\* BaseScraper.USER_AGENTS, by index
USER_AGENTS == 1..NumUserAgents

\* a constructor whose strategy depends on the user agent drawn
NewScraperByAgent(cls, u, ua) ==
    [cls |-> IF ua = 1 THEN cls ELSE "GenericScraper", url |-> u,
     headers |-> [ua |-> ua, referer |-> FALSE]]

\* BaseScraper.__init__(url): a copy of DEFAULT_HEADERS plus the chosen
\* User-Agent; DEFAULT_HEADERS holds no Referer
NewScraper(cls, u, ua) ==
    [cls |-> cls, url |-> u, headers |-> [ua |-> ua, referer |-> FALSE]]

\* ScraperFactory.get_scraper(url), with the user agent random.choice drew
get_scraper(reg, u, ua) == NewScraper(ScraperClassFrom(reg, Netloc(u), 1), u, ua)

\* --------------------------------------------------------------------------
(* Pages.  An element is what select_one can match and what get_text()     *)
(* gives for it; a page is its elements in document order plus the markup  *)
(* text outside them.                                                      *)

\* the attributes the code reads: src and data-src (None, or [src |-> url]),
\* data-testid ("" when absent) and data-a-dynamic-image
NoAttrs == [src |-> None, data_src |-> None, data_testid |-> "", dynamic_image |-> None]

WithAttrs(e, attrs) == [e EXCEPT !.attrs = attrs]

Elem(tag, id, cls, anc, text) ==
    [tag |-> tag, id |-> id, cls |-> cls, anc |-> anc, attrs |-> NoAttrs, text |-> text]

Page(elems, extra) == [elems |-> elems, extra |-> extra]

\* response.text: the text of the markup
ResponseText(page) ==
    Concat([i \in 1..Len(page.elems) |-> page.elems[i].text]) \o page.extra

\* --------------------------------------------------------------------------
(* The fetcher: BaseScraper._fetch_page. *)

max_retries == 3
retry_delay == 2

captcha == <<"c", "a", "p", "t", "c", "h", "a">>
robot_check == <<"r", "o", "b", "o", "t", " ", "c", "h", "e", "c", "k">>

\* requests' exception classes and their base classes
Parent(cls) ==
    CASE cls \in {"HTTPError", "ConnectionError", "Timeout", "InvalidSchema",
                  "MissingSchema"} -> "RequestException"
      [] cls = "RequestException" -> "IOError"
      [] cls \in {"IOError", "ValueError", "ValidationError"} -> "Exception"
      [] OTHER -> ""

ErrorClasses == {"HTTPError", "ConnectionError", "Timeout", "InvalidSchema",
                 "MissingSchema", "RequestException", "IOError", "ValueError",
                 "ValidationError", "Exception"}

RECURSIVE IsInstance(_, _)
\* isinstance(e, base), for e of class cls
IsInstance(cls, base) ==
    IF cls = "" THEN FALSE
    ELSE cls = base \/ IsInstance(Parent(cls), base)

\* what a site can answer to one request: the request fails (connection error,
\* timeout, or raise_for_status() on a non-2xx status), or a 2xx page arrives
Failed(cls) == [kind |-> "fail", cls |-> cls]
Served(page) == [kind |-> "page", page |-> page]

\* session.get(self.url, ...) followed by response.raise_for_status(): requests
\* mounts adapters for http:// and https:// only and raises before any network
\* access for every other URL
Respond(u, answer) ==
    IF Len(u) >= 1 /\ u[1] \in Schemes /\ u[1] \notin HttpSchemes
        THEN Failed("InvalidSchema")
    ELSE IF ~HasHttpPrefix(u) THEN Failed("MissingSchema")
    ELSE answer

\* IsChallenged without .lower(): the markers are looked for as written
IsChallengedExact(text) == Contains(captcha, text) \/ Contains(robot_check, text)

\* line 86: "captcha" in response.text.lower() or "robot check" in response.text.lower()
IsChallenged(text) ==
    Contains(captcha, Lower(text)) \/ Contains(robot_check, Lower(text))

\* MayRetry with the bound one short: the last retry is never made
MayRetryOnce(a) == a < max_retries - 2

\* a loop that waits after its last attempt as well
MayRetryEvery(a) == a < max_retries

\* lines 88 and 99: attempt < max_retries - 1
MayRetry(a) == a < max_retries - 1

\* Except without its raise: the last failure is slept on like the others
ExceptSwallow(a, cls) ==
    [next |-> "continue", sleep |-> retry_delay * (a + 1), rotate |-> FALSE,
     html |-> None, error |-> None]

\* the except clause waiting retry_delay before every retry
ExceptFlatDelay(a, cls) ==
    IF IsInstance(cls, "RequestException") /\ MayRetry(a)
    THEN [next |-> "continue", sleep |-> retry_delay, rotate |-> FALSE,
          html |-> None, error |-> None]
    ELSE [next |-> "raise", sleep |-> 0, rotate |-> FALSE, html |-> None,
          error |-> [cls |-> cls]]

\* lines 97-102: the except clause, for an exception of class cls
Except(a, cls) ==
    IF IsInstance(cls, "RequestException")
    THEN IF MayRetry(a)
         THEN [next |-> "continue", sleep |-> retry_delay * (a + 1), rotate |-> FALSE,
               html |-> None, error |-> None]
         ELSE [next |-> "raise", sleep |-> 0, rotate |-> FALSE, html |-> None,
               error |-> [cls |-> cls]]
    ELSE [next |-> "raise", sleep |-> 0, rotate |-> FALSE, html |-> None,
          error |-> [cls |-> cls]]

\* lines 85-96: a 2xx response arrived
OnResponse(a, page) ==
    IF IsChallenged(ResponseText(page))
    THEN IF MayRetry(a)
         THEN [next |-> "continue", sleep |-> retry_delay * (a + 1), rotate |-> TRUE,
               html |-> None, error |-> None]
         ELSE Except(a, "RequestException")
    ELSE [next |-> "return", sleep |-> 0, rotate |-> FALSE, html |-> page,
          error |-> None]

\* lines 69-102: one pass of the loop body, given what the request met
Iteration(a, out) ==
    IF out.kind = "fail" THEN Except(a, out.cls) ELSE OnResponse(a, out.page)

\* --------------------------------------------------------------------------
(* The parsed document: BeautifulSoup(html, 'lxml'). *)

\* a CSS selector: tag, #id, .classes, an ancestor (".a-price .a-offscreen")
\* and a [data-testid='...'] test; "" leaves a part out
Sel(tag, id, cls, anc, testid) ==
    [tag |-> tag, id |-> id, cls |-> cls, anc |-> anc, testid |-> testid]

ByClass(c) == Sel("", "", {c}, "", "")
ById(i) == Sel("", i, {}, "", "")
Under(a, s) == [s EXCEPT !.anc = a]

Matches(sel, e) ==
    /\ sel.tag = "" \/ e.tag = sel.tag
    /\ sel.id = "" \/ e.id = sel.id
    /\ sel.cls \subseteq e.cls
    /\ sel.anc = "" \/ sel.anc \in e.anc
    /\ sel.testid = "" \/ e.attrs.data_testid = sel.testid

\* soup.select(selector): the matching elements in document order
Select(soup, sel) == SelectSeq(soup.elems, LAMBDA e : Matches(sel, e))

\* soup.select_one(selector)
select_one(soup, sel) ==
    LET found == Select(soup, sel)
    IN  IF found = << >> THEN None ELSE Head(found)

\* --------------------------------------------------------------------------
(* Numbers.  A float is kept exact: [n |-> n, d |-> d] stands for n / 10^d  *)
(* with no trailing zero in its fraction.                                   *)

Digits == <<"0", "1", "2", "3", "4", "5", "6", "7", "8", "9">>
IsDigit(c) == \E i \in 1..10 : Digits[i] = c
DigitValue(c) == (CHOOSE i \in 1..10 : Digits[i] = c) - 1

RECURSIVE NatOf(_)
NatOf(ds) ==
    IF ds = << >> THEN 0
    ELSE 10 * NatOf(SubSeq(ds, 1, Len(ds) - 1)) + DigitValue(ds[Len(ds)])

RECURSIVE DropTrailingZeros(_)
DropTrailingZeros(ds) ==
    IF ds # << >> /\ ds[Len(ds)] = "0"
    THEN DropTrailingZeros(SubSeq(ds, 1, Len(ds) - 1))
    ELSE ds

ValueError == [raised |-> "ValueError"]

\* what a failed step leaves to the code after it: r, or alt when r is ValueError
OrElse(r, alt) == IF r = ValueError THEN alt ELSE r

\* the value of the digits of body around the dot at index dot
FloatValue(body, dot) ==
    [n |-> NatOf(SubSeq(body, 1, dot - 1)
                   \o DropTrailingZeros(SubSeq(body, dot + 1, Len(body)))),
     d |-> Len(DropTrailingZeros(SubSeq(body, dot + 1, Len(body))))]

\* float(body) for an unsigned body whose dots are at the indices dots
UnsignedFloat(body, dots) ==
    IF \/ Cardinality(dots) > 1
       \/ \A i \in 1..Len(body) : ~IsDigit(body[i])
       \/ \E i \in 1..Len(body) : ~IsDigit(body[i]) /\ body[i] # "."
    THEN ValueError
    ELSE FloatValue(body, IF dots = {} THEN Len(body) + 1 ELSE Min(dots))

WithSign(negative, v) ==
    IF negative /\ v # ValueError THEN [v EXCEPT !.n = 0 - v.n] ELSE v

Unsigned(text) == IF text # << >> /\ text[1] \in {"-", "+"} THEN Tail(text) ELSE text

DotsOf(body) == {i \in 1..Len(body) : body[i] = "."}

\* float(text), for text over digits, ".", "," and a sign, with no exponent,
\* underscore, "inf" or "nan" in it
float(text) ==
    WithSign(text # << >> /\ text[1] = "-",
             UnsignedFloat(Unsigned(text), DotsOf(Unsigned(text))))

\* --------------------------------------------------------------------------
(* The currency and price normalizer shared by the strategies. *)

Glyphs == {"$", "€", "£", "¥", "₹"}

\* currency_map without its default: an unknown symbol is handed on as it is
CurrencyMapRaw(c) ==
    CASE c = "$" -> "USD"
      [] c = "€" -> "EUR"
      [] c = "£" -> "GBP"
      [] c = "¥" -> "JPY"
      [] c = "₹" -> "INR"
      [] OTHER -> c

\* currency_map.get(currency, 'USD')
currency_map(c) ==
    CASE c = "$" -> "USD"
      [] c = "€" -> "EUR"
      [] c = "£" -> "GBP"
      [] c = "¥" -> "JPY"
      [] c = "₹" -> "INR"
      [] OTHER -> "USD"

\* re.search(r'[$€£¥₹]', text): the first glyph, or "" for no match
FirstGlyph(text) ==
    LET at == {i \in 1..Len(text) : text[i] \in Glyphs}
    IN  IF at = {} THEN "" ELSE text[Min(at)]

\* text.replace(c, '')
Without(text, cs) == SelectSeq(text, LAMBDA c : c \notin cs)

\* re.search(r'([\d,]+\.?\d*)', text).group(1), or << >> for no match
FirstPricePattern(text) ==
    LET starts == {i \in 1..Len(text) : IsDigit(text[i]) \/ text[i] = ","}
    IN  IF starts = {} THEN << >>
        ELSE LET b == Min(starts)
                 stop1 == {i \in b..Len(text) : ~(IsDigit(text[i]) \/ text[i] = ",")}
                 e1 == IF stop1 = {} THEN Len(text) ELSE Min(stop1) - 1
                 e2 == IF e1 < Len(text) /\ text[e1 + 1] = "." THEN e1 + 1 ELSE e1
                 stop2 == {i \in (e2 + 1)..Len(text) : ~IsDigit(text[i])}
                 e3 == IF stop2 = {} THEN Len(text) ELSE Min(stop2) - 1
             IN  SubSeq(text, b, e3)

\* --------------------------------------------------------------------------
(* The generic strategy: generic_scraper.py. *)

PRICE_SELECTORS == <<
    ByClass("price"), ByClass("product-price"), ByClass("offer-price"),
    ByClass("price-current"), ByClass("actual-price"),
    ById("priceblock_ourprice"), ById("priceblock_dealprice"),
    ByClass("a-price"), ByClass("a-price-whole"),
    Under(".a-price", ByClass("a-offscreen")),
    Under(".priceToPay", ByClass("a-offscreen")),
    Under(".apexPriceToPay", ByClass("a-offscreen")),
    ById("price_inside_buybox"),
    Sel("span", "", {"a-price-whole"}, "", ""),
    Sel("span", "", {"a-size-medium", "a-color-price"}, "", ""),
    Sel("", "", {}, "", "product-price"),
    ByClass("product-price-value"), ByClass("current-price") >>

TITLE_SELECTORS == <<
    Sel("h1", "", {"product-title"}, "", ""), Sel("h1", "", {"product-name"}, "", ""),
    Sel("h1", "", {"product_title"}, "", ""), ById("productTitle"),
    ByClass("product-name"), ByClass("product-title"),
    Sel("", "", {}, "", "product-title"), ByClass("title") >>

IMAGE_SELECTORS == <<
    Under(".product-image", Sel("img", "", {}, "", "")),
    Under(".product-main-image", Sel("img", "", {}, "", "")),
    ById("main-image"), ById("product-image"), ByClass("gallery-image"),
    Sel("", "", {}, "", "product-image"), ByClass("main-product-image") >>

SpanWhole == Sel("span", "", {"a-price-whole"}, "", "")
SpanFraction == Sel("span", "", {"a-price-fraction"}, "", "")
SpanSymbol == Sel("span", "", {"a-price-symbol"}, "", "")

\* lines 66-81: the currency code for a price text found on url u
GenericCurrency(price_text, u) ==
    LET glyph == FirstGlyph(price_text)
        low == Lower(u)
        currency ==
            IF glyph # "" THEN glyph
            ELSE IF Contains(<<".in", "/">>, low) THEN "₹"
            ELSE IF Contains(<<".uk", "/">>, low) THEN "£"
            ELSE IF \E x \in {".de", ".fr", ".it", ".es"} : Contains(<<x, "/">>, low)
                 THEN "€"
            ELSE "USD"
    IN  currency_map(currency)

\* lines 86-87: re.sub(r'[$€£¥₹]', '', t), then re.sub(r'[^\d.,]', '', t)
GenericClean(price_text) ==
    SelectSeq(Without(price_text, Glyphs),
              LAMBDA c : IsDigit(c) \/ c \in {".", ","})

\* the repair without its even-split test: the long-string branch alone
DuplicateRepairLongOnly(t) ==
    IF Len(t) > 8 /\ FirstPricePattern(t) # << >> THEN FirstPricePattern(t) ELSE t

\* lines 90-100: the duplicated-price repair
DuplicateRepair(t) ==
    LET half_length == Len(t) \div 2
    IN  IF Len(t) > 0
        THEN IF half_length > 0
                  /\ SubSeq(t, 1, half_length) = SubSeq(t, half_length + 1, Len(t))
             THEN SubSeq(t, 1, half_length)
             ELSE IF Len(t) > 8 /\ FirstPricePattern(t) # << >>
                  THEN FirstPricePattern(t)
                  ELSE t
        ELSE t

\* lines 83-103: the number a price text stands for, or ValueError
GenericNumber(price_text) ==
    float(Without(DuplicateRepair(GenericClean(price_text)), {","}))

\* lines 118-128: the currency of the whole+fraction tier
WholeFractionCurrency(soup, u) ==
    IF select_one(soup, SpanSymbol) # None
    THEN LET currency_symbol == Strip(select_one(soup, SpanSymbol).text)
         IN  IF Len(currency_symbol) = 1 THEN currency_map(currency_symbol[1])
             ELSE "USD"
    ELSE IF Contains(<<".in", "/">>, Lower(u)) THEN "INR"
    ELSE "USD"

\* a price with its currency code
Priced(price, code) ==
    IF price = ValueError THEN ValueError ELSE [price |-> price, currency |-> code]

\* lines 111-136: the whole+fraction tier, and the failure after it
GenericWholeFraction(soup, u) ==
    IF select_one(soup, SpanWhole) # None /\ select_one(soup, SpanFraction) # None
    THEN Priced(float(Without(Strip(select_one(soup, SpanWhole).text), {","})
                        \o <<".">> \o Strip(select_one(soup, SpanFraction).text)),
                WholeFractionCurrency(soup, u))
    ELSE ValueError

\* lines 62-109: one selector's element, or ValueError to go on to the next
GenericElementPrice(price_elem, u) ==
    IF price_elem = None THEN ValueError
    ELSE Priced(GenericNumber(Strip(price_elem.text)),
                GenericCurrency(Strip(price_elem.text), u))

RECURSIVE GenericPriceFrom(_, _, _)
\* lines 60-109: the loop over PRICE_SELECTORS, from selector i on
GenericPriceFrom(soup, u, i) ==
    IF i > Len(PRICE_SELECTORS) THEN ValueError
    ELSE OrElse(GenericElementPrice(select_one(soup, PRICE_SELECTORS[i]), u),
                GenericPriceFrom(soup, u, i + 1))

\* GenericScraper._extract_price
GenericExtractPrice(soup, u) ==
    OrElse(GenericPriceFrom(soup, u, 1), GenericWholeFraction(soup, u))

\* soup.title
TitleTag(soup) == select_one(soup, Sel("title", "", {}, "", ""))

RECURSIVE GenericTitleFrom(_, _)
\* GenericScraper._extract_title, from selector i on
GenericTitleFrom(soup, i) ==
    IF i > Len(TITLE_SELECTORS)
    THEN IF TitleTag(soup) # None THEN [name |-> Strip(TitleTag(soup).text)]
         ELSE ValueError
    ELSE IF select_one(soup, TITLE_SELECTORS[i]) # None
         THEN [name |-> Strip(select_one(soup, TITLE_SELECTORS[i]).text)]
         ELSE GenericTitleFrom(soup, i + 1)

GenericExtractTitle(soup) == GenericTitleFrom(soup, 1)

RECURSIVE GenericImageFrom(_, _)
\* GenericScraper._extract_image_url, from selector i on
GenericImageFrom(soup, i) ==
    IF i > Len(IMAGE_SELECTORS) THEN None
    ELSE LET img_elem == select_one(soup, IMAGE_SELECTORS[i])
         IN  IF img_elem # None /\ img_elem.attrs.src # None
             THEN img_elem.attrs.src
             ELSE IF img_elem # None /\ img_elem.attrs.data_src # None
             THEN img_elem.attrs.data_src
             ELSE GenericImageFrom(soup, i + 1)

GenericExtractImage(soup) == GenericImageFrom(soup, 1)

\* lines 166-178: the raw fields from the three extractions
GenericFields(p, title, image) ==
    IF p = ValueError \/ title = ValueError THEN ValueError
    ELSE [name |-> title.name, price |-> p.price, currency |-> p.currency,
          main_image_url |-> image]

\* GenericScraper._extract_data: the raw fields, or the exception raised
GenericExtractData(soup, u) ==
    GenericFields(GenericExtractPrice(soup, u), GenericExtractTitle(soup),
                  GenericExtractImage(soup))

\* --------------------------------------------------------------------------
(* Regular expressions of the Amazon strategy, as matchers: each gives the  *)
(* index of the last character of the match that starts at i, or i - 1      *)
(* when nothing matches there.                                              *)

RunEnd(t, i, Ok(_)) ==
    LET stops == {j \in i..Len(t) : ~Ok(t[j])}
    IN  IF stops = {} THEN Len(t) ELSE Min(stops) - 1

\* \s*
SkipSpace(t, i) == RunEnd(t, i, IsSpace) + 1

IsDigitAt(t, i) == i >= 1 /\ i <= Len(t) /\ IsDigit(t[i])
IsCharAt(t, i, c) == i >= 1 /\ i <= Len(t) /\ t[i] = c

\* (\.\d+)? after a match that ends at e
OptFraction(t, e) ==
    IF IsCharAt(t, e + 1, ".") /\ IsDigitAt(t, e + 2) THEN RunEnd(t, e + 2, IsDigit)
    ELSE e

RECURSIVE CommaGroups(_, _)
\* (?:,\d+)* after a match that ends at e
CommaGroups(t, e) ==
    IF IsCharAt(t, e + 1, ",") /\ IsDigitAt(t, e + 2)
    THEN CommaGroups(t, RunEnd(t, e + 2, IsDigit))
    ELSE e

\* \d+(?:\.\d+)?
PlainNumber(t, i) ==
    IF IsDigitAt(t, i) THEN OptFraction(t, RunEnd(t, i, IsDigit)) ELSE i - 1

\* \d+(?:,\d+)*(?:\.\d+)?
GroupedNumber(t, i) ==
    IF IsDigitAt(t, i) THEN OptFraction(t, CommaGroups(t, RunEnd(t, i, IsDigit)))
    ELSE i - 1

\* \d+(?:,\d+)*
GroupedInteger(t, i) ==
    IF IsDigitAt(t, i) THEN CommaGroups(t, RunEnd(t, i, IsDigit)) ELSE i - 1

IsDigitOrComma(c) == IsDigit(c) \/ c = ","

\* [\d,]+(\.\d+)?
LooseNumber(t, i) ==
    IF i <= Len(t) /\ IsDigitOrComma(t[i])
    THEN OptFraction(t, RunEnd(t, i, IsDigitOrComma))
    ELSE i - 1

\* the first match of  lead \s* (Number)  in t: group 1, or << >> for no match
AfterLead(t, lead, Number(_, _)) ==
    LET at == {i \in 1..Len(t) :
                 t[i] = lead /\ Number(t, SkipSpace(t, i + 1)) >= SkipSpace(t, i + 1)}
    IN  IF at = {} THEN << >>
        ELSE LET b == SkipSpace(t, Min(at) + 1)
             IN  SubSeq(t, b, Number(t, b))

\* the first match of  field \s* "₹ \s* (GroupedNumber) "  in t
QuotedRupee(t, field) ==
    LET Start(i) == SkipSpace(t, SkipSpace(t, i + 1) + 2)
        at == {i \in 1..Len(t) :
                 /\ t[i] = field
                 /\ IsCharAt(t, SkipSpace(t, i + 1), "\"")
                 /\ IsCharAt(t, SkipSpace(t, i + 1) + 1, "₹")
                 /\ GroupedNumber(t, Start(i)) >= Start(i)
                 /\ IsCharAt(t, GroupedNumber(t, Start(i)) + 1, "\"")}
    IN  IF at = {} THEN << >>
        ELSE SubSeq(t, Start(Min(at)), GroupedNumber(t, Start(Min(at))))

\* --------------------------------------------------------------------------
(* The Amazon strategy: amazon_scraper.py. *)

IndexError == [raised |-> "IndexError"]

RECURSIVE SplitFrom(_, _)
\* u.split('/'), the parts so far in acc: "//" is two separators
SplitFrom(u, acc) ==
    IF u = << >> THEN acc
    ELSE LET n == Len(acc)
         IN  IF Head(u) = "/" THEN SplitFrom(Tail(u), Append(acc, << >>))
             ELSE IF Head(u) = "//"
                  THEN SplitFrom(Tail(u), Append(Append(acc, << >>), << >>))
             ELSE SplitFrom(Tail(u), [acc EXCEPT ![n] = Append(acc[n], Head(u))])

Split(u) == SplitFrom(u, << << >> >>)

\* parts[2].lower(): [domain |-> ...], or IndexError
DomainOf(parts) ==
    IF Len(parts) < 3 THEN IndexError ELSE [domain |-> Lower(parts[3])]

\* self.url.split('/')[2].lower()
AmazonDomain(u) == DomainOf(Split(u))

amazon_price_selectors == <<
    ById("priceblock_ourprice"), ById("priceblock_dealprice"),
    Under(".a-price", ByClass("a-offscreen")), ById("price_inside_buybox"),
    Under(".apexPriceToPay", ByClass("a-offscreen")),
    Under(".priceToPay", ByClass("a-offscreen")),
    Under("#apex_desktop", ByClass("a-offscreen")),
    Under("#corePriceDisplay_desktop_feature_div", ByClass("a-offscreen")),
    ByClass("a-price-whole"), Sel("span", "", {"a-price-whole"}, "", ""),
    Sel("span", "", {"a-size-medium", "a-color-price"}, "", ""),
    Sel("span", "", {"a-color-price"}, "", "") >>

\* lines 47-48 and 133-134: re.sub(r'[$€£¥₹,]', '', t), then re.sub(r'[^\d.]', '', t)
AmazonClean(price_text) ==
    SelectSeq(Without(price_text, Glyphs \cup {","}),
              LAMBDA c : IsDigit(c) \/ c = ".")

\* lines 54-65: the code for the currency glyph, "$" when none was found,
\* on the domain d
CurrencyOn(currency, d) ==
    IF currency # "$" THEN [code |-> currency_map(currency)]
    ELSE IF d = IndexError THEN IndexError
    ELSE IF Contains(<<".in">>, d.domain) THEN [code |-> "INR"]
    ELSE IF Contains(<<".co", ".uk">>, d.domain) THEN [code |-> "GBP"]
    ELSE IF \E x \in {".de", ".fr", ".it", ".es"} : Contains(<<x>>, d.domain)
         THEN [code |-> "EUR"]
    ELSE [code |-> currency_map(currency)]

\* lines 43-44: currency_match.group(0) if currency_match else '$'
GlyphOrDollar(glyph) == IF glyph # "" THEN glyph ELSE "$"

\* lines 42-44 and 53-65: the currency code of the selector tier, or IndexError
AmazonCurrency(price_text, u) ==
    CurrencyOn(GlyphOrDollar(FirstGlyph(price_text)), AmazonDomain(u))

\* lines 139-142: USD, or INR by the domain d
InrOrUsd(d) ==
    IF d = IndexError THEN IndexError
    ELSE IF Contains(<<".in">>, d.domain) THEN [code |-> "INR"]
    ELSE [code |-> "USD"]

\* lines 137-142 and 94-97: USD, or INR by the domain of the URL
DomainCurrency(u) == InrOrUsd(AmazonDomain(u))

\* return price, currency_code: float(price_text) raises first, the
\* currency lookup after it
AmazonPriced(price, code) ==
    IF price = ValueError THEN ValueError
    ELSE IF code = IndexError THEN IndexError
    ELSE [price |-> price, currency |-> code.code]

\* except (ValueError, AttributeError, IndexError) and except Exception:
\* the tier ends without a price
Caught(r) == IF r = IndexError THEN ValueError ELSE r

\* lines 127-142: the price of the first "Buy New" element
BuyNewPrice(buy_new_elements, u) ==
    IF buy_new_elements = << >> THEN ValueError
    ELSE Caught(AmazonPriced(float(AmazonClean(Strip(buy_new_elements[1].text))),
                             DomainCurrency(u)))

\* lines 125-146: the "Buy New" section
AmazonBuyNew(soup, u) ==
    BuyNewPrice(Select(soup, Under("#buyNewSection", ByClass("a-color-price"))), u)

\* lines 115-121: the price of the first match of the rupee pattern
RupeePrice(found) ==
    IF found = << >> THEN ValueError
    ELSE AmazonPriced(float(Without(found, {","})), [code |-> "INR"])

\* lines 105-123: the rupee pattern over str(soup), on a URL that holds ".in"
AmazonRupeeText(soup, u) ==
    IF Contains(<<".in">>, u)
    THEN RupeePrice(AfterLead(ResponseText(soup), "₹", LooseNumber))
    ELSE ValueError

\* lines 86-91: the code for the text of the first symbol element
SymbolCurrency(currency_symbol) ==
    IF Len(currency_symbol) = 1 THEN [code |-> currency_map(currency_symbol[1])]
    ELSE [code |-> "USD"]

\* lines 84-97: the currency of the whole+fraction tier, or IndexError
AmazonWholeFractionCurrency(soup, u) ==
    IF Select(soup, SpanSymbol) # << >>
    THEN SymbolCurrency(Strip(Select(soup, SpanSymbol)[1].text))
    ELSE DomainCurrency(u)

\* lines 79-81: f"{whole_part}.{fraction_part}"
WholeFractionText(whole_elements, fraction_elements) ==
    Without(Strip(whole_elements[1].text), {","})
        \o <<".">> \o Strip(fraction_elements[1].text)

\* lines 72-103: the whole+fraction tier
AmazonWholeFraction(soup, u) ==
    IF Select(soup, SpanWhole) # << >> /\ Select(soup, SpanFraction) # << >>
    THEN Caught(AmazonPriced(
                  float(WholeFractionText(Select(soup, SpanWhole),
                                          Select(soup, SpanFraction))),
                  AmazonWholeFractionCurrency(soup, u)))
    ELSE ValueError

\* lines 37-68: one selector's element, ValueError to go on to the next
AmazonElementPrice(price_elem, u) ==
    IF price_elem = None THEN ValueError
    ELSE AmazonPriced(float(AmazonClean(Strip(price_elem.text))),
                      AmazonCurrency(Strip(price_elem.text), u))

RECURSIVE AmazonPriceFrom(_, _, _)
\* lines 36-70: the loop over price_selectors, from selector i on
AmazonPriceFrom(soup, u, i) ==
    IF i > Len(amazon_price_selectors) THEN ValueError
    ELSE OrElse(AmazonElementPrice(select_one(soup, amazon_price_selectors[i]), u),
                AmazonPriceFrom(soup, u, i + 1))

\* Scraper._extract_price: the tiers in order; the price and currency,
\* ValueError or IndexError
AmazonExtractPrice(soup, u) ==
    OrElse(AmazonPriceFrom(soup, u, 1),
      OrElse(AmazonWholeFraction(soup, u),
        OrElse(AmazonRupeeText(soup, u), AmazonBuyNew(soup, u))))

\* the price patterns of _extract_data over the raw markup, in list order:
\* each gives price_str, or << >> when it matches nowhere
RawPriceAmount(page) == AfterLead(ResponseText(page), "\"priceAmount\":", PlainNumber)
RawFormattedPrice(page) == QuotedRupee(ResponseText(page), "\"formattedPrice\":")
RawBuyingPrice(page) == QuotedRupee(ResponseText(page), "\"buyingPrice\":")

\* id="priceblock_ourprice"[^>]*>₹\s*(number): an element with that id whose
\* content starts with the rupee sign
RawOurPrice(page) ==
    LET Start(i) == SkipSpace(page.elems[i].text, 2)
        at == {i \in 1..Len(page.elems) :
                 /\ page.elems[i].id = "priceblock_ourprice"
                 /\ IsCharAt(page.elems[i].text, 1, "₹")
                 /\ GroupedNumber(page.elems[i].text, Start(i)) >= Start(i)}
    IN  IF at = {} THEN << >>
        ELSE LET t == page.elems[Min(at)].text
             IN  SubSeq(t, Start(Min(at)), GroupedNumber(t, Start(Min(at))))

\* class="a-price-whole">(\d+(?:,\d+)*)</span><span class="a-price-fraction">(\d+):
\* a span of that one class holding only the number, with the fraction span next
RawWholeFraction(page) ==
    LET at == {i \in 1..(Len(page.elems) - 1) :
                 /\ page.elems[i].tag = "span"
                 /\ page.elems[i].cls = {"a-price-whole"}
                 /\ page.elems[i].text # << >>
                 /\ GroupedInteger(page.elems[i].text, 1) = Len(page.elems[i].text)
                 /\ page.elems[i + 1].tag = "span"
                 /\ page.elems[i + 1].cls = {"a-price-fraction"}
                 /\ IsDigitAt(page.elems[i + 1].text, 1)}
    IN  IF at = {} THEN << >>
        ELSE LET w == page.elems[Min(at)].text
                 f == page.elems[Min(at) + 1].text
             IN  Without(w, {","}) \o <<".">> \o SubSeq(f, 1, RunEnd(f, 1, IsDigit))

RawRupee(page) == AfterLead(ResponseText(page), "₹", GroupedNumber)

price_patterns(page) ==
    << RawPriceAmount(page), RawFormattedPrice(page), RawBuyingPrice(page),
       RawOurPrice(page), RawWholeFraction(page), RawRupee(page) >>

\* lines 219-229: the price of one pattern's match, ValueError to go on
RawPrice(price_str) ==
    IF price_str = << >> THEN ValueError
    ELSE AmazonPriced(float(Without(price_str, {","})), [code |-> "INR"])

RECURSIVE RawPriceFrom(_, _)
\* lines 217-231: the loop over price_patterns, from pattern i on
RawPriceFrom(found, i) ==
    IF i > Len(found) THEN ValueError
    ELSE OrElse(RawPrice(found[i]), RawPriceFrom(found, i + 1))

\* lines 198-234: what _extract_data does when _extract_price raised
\* ValueError: the patterns are tried on a URL that holds ".in" only, and
\* without a price the ValueError is raised again
AmazonRawPrice(page, u) ==
    IF Contains(<<".in">>, u) THEN RawPriceFrom(price_patterns(page), 1)
    ELSE ValueError

\* text.split(" : ")[0]
BeforeSeparator(text) ==
    LET at == {i \in 1..Len(text) : IsPrefixAt(<<" ", ":", " ">>, text, i)}
    IN  IF at = {} THEN text ELSE SubSeq(text, 1, Min(at) - 1)

\* Scraper._extract_title
AmazonExtractTitle(soup) ==
    IF select_one(soup, ById("productTitle")) # None
    THEN [name |-> Strip(select_one(soup, ById("productTitle")).text)]
    ELSE IF TitleTag(soup) # None
    THEN [name |-> Strip(BeforeSeparator(TitleTag(soup).text))]
    ELSE ValueError

\* Scraper._extract_image_url.  data-a-dynamic-image is None when absent,
\* [src |-> url] when it is a JSON object whose first key is url, and any
\* other record when json.loads fails or gives an empty object
AmazonExtractImage(soup) ==
    LET img_elem == IF select_one(soup, ById("landingImage")) # None
                    THEN select_one(soup, ById("landingImage"))
                    ELSE select_one(soup, ById("imgBlkFront"))
        main == select_one(soup, ById("main-image"))
        wrapped == select_one(soup, Under("#imgTagWrapperId", Sel("img", "", {}, "", "")))
    IN  IF img_elem # None /\ img_elem.attrs.src # None THEN img_elem.attrs.src
        ELSE IF /\ img_elem # None
                /\ img_elem.attrs.dynamic_image # None
                /\ "src" \in DOMAIN img_elem.attrs.dynamic_image
             THEN img_elem.attrs.dynamic_image
        ELSE IF main # None /\ main.attrs.src # None THEN main.attrs.src
        ELSE IF wrapped # None /\ wrapped.attrs.src # None THEN wrapped.attrs.src
        ELSE None

\* lines 236-244: the raw fields from the three extractions
AmazonFields(p, title, image) ==
    IF p = IndexError THEN IndexError
    ELSE IF p = ValueError \/ title = ValueError THEN ValueError
    ELSE [name |-> title.name, price |-> p.price, currency |-> p.currency,
          main_image_url |-> image]

\* Scraper._extract_data: the raw fields, or the exception raised
AmazonExtractData(page, u) ==
    AmazonFields(OrElse(AmazonExtractPrice(page, u), AmazonRawPrice(page, u)),
                 AmazonExtractTitle(page), AmazonExtractImage(page))

\* self._extract_data(html), by the class of the instance
ExtractData(cls, page, u) ==
    IF page = None THEN [raised |-> "TypeError"]
    ELSE IF cls = "Scraper" THEN AmazonExtractData(page, u)
    ELSE GenericExtractData(page, u)

\* --------------------------------------------------------------------------
(* The validation layer: schemas.py. *)

ValidationError == [raised |-> "ValidationError"]

\* pydantic's HttpUrl: an http or https URL with a host
HttpUrl(u) == HasHttpPrefix(u) /\ Netloc(u) # << >>

\* name: str = Field(..., description="Product name"): every str passes
NameField(name) == TRUE

\* price: float = Field(..., description="Current price"): every float passes
PriceField(price) == TRUE

\* ProductData(**raw_data).dict(), or ValidationError
ProductData(raw_data) ==
    IF /\ HttpUrl(raw_data.url)
       /\ NameField(raw_data.name)
       /\ PriceField(raw_data.price)
       /\ raw_data.main_image_url = None \/ HttpUrl(raw_data.main_image_url.src)
    THEN raw_data
    ELSE ValidationError

\* lines 117-121: the record built from raw_data, or the exception
\* _extract_data raised
Validated(raw_data, u, now) ==
    IF "raised" \in DOMAIN raw_data THEN raw_data
    ELSE ProductData([url |-> u, name |-> raw_data.name, price |-> raw_data.price,
                      currency |-> raw_data.currency,
                      main_image_url |-> raw_data.main_image_url,
                      timestamp |-> now])

\* BaseScraper.scrape after the fetch (lines 113-126), at time now: the
\* record, or the exception raised
ScrapePage(cls, page, u, now) == Validated(ExtractData(cls, page, u), u, now)

\* --------------------------------------------------------------------------
(* The store: database.py. *)

\* Database.add_product(url): session.merge(Product(url=url)); commit
add_product(prods, u) == prods \cup {u}

\* the PriceHistory row add_price builds; its id is the md5 of url and timestamp
PriceHistory(data) ==
    [id |-> <<data.url, data.timestamp>>, product_url |-> data.url,
     name |-> data.name, price |-> data.price, currency |-> data.currency,
     main_image_url |-> data.main_image_url, timestamp |-> data.timestamp]

\* Database.add_price(data): the two tables afterwards
add_price(prods, hist, data) ==
    [products |-> add_product(prods, data.url),
     price_histories |-> hist \cup {PriceHistory(data)}]

\* a delete that removes the product row and leaves its history rows
DeleteProductRowOnly(prods, hist, u) ==
    IF u \in prods
    THEN [ret |-> TRUE, products |-> prods \ {u}, price_histories |-> hist]
    ELSE [ret |-> FALSE, products |-> prods, price_histories |-> hist]

\* Database.delete_product(url): session.delete(product) takes the rows of
\* the relationship price_histories (cascade="all, delete-orphan") with it
delete_product(prods, hist, u) ==
    IF u \in prods
    THEN [ret |-> TRUE, products |-> prods \ {u},
          price_histories |-> {r \in hist : r.product_url # u}]
    ELSE [ret |-> FALSE, products |-> prods, price_histories |-> hist]

RECURSIVE Ascending(_)
\* order_by(PriceHistory.timestamp.asc()) over rows of distinct timestamps
Ascending(rows) ==
    IF rows = {} THEN << >>
    ELSE LET first == CHOOSE r \in rows : \A q \in rows : r.timestamp <= q.timestamp
         IN  <<first>> \o Ascending(rows \ {first})

\* filter(PriceHistory.product_url == url)
RowsOf(hist, u) == {r \in hist : r.product_url = u}

\* "if limit: query = query.limit(limit)", limit being None or [n |-> a count]
Limited(rows, limit) ==
    IF limit = None \/ limit.n = 0 \/ limit.n >= Len(rows) THEN rows ELSE SubSeq(rows, 1, limit.n)

\* Database.get_price_history(url, limit)
get_price_history(hist, u, limit) == Limited(Ascending(RowsOf(hist, u)), limit)

\* get_latest_price reading the ascending order's first row
GetEarliestPrice(hist, u) ==
    IF RowsOf(hist, u) = {} THEN None ELSE Head(Ascending(RowsOf(hist, u)))

\* Database.get_latest_price(url): order_by(timestamp.desc()).first()
get_latest_price(hist, u) ==
    IF RowsOf(hist, u) = {} THEN None
    ELSE CHOOSE r \in RowsOf(hist, u) : \A q \in RowsOf(hist, u) : q.timestamp <= r.timestamp

\* --------------------------------------------------------------------------
(* The URLs, pages and site behaviours the model explores. *)

ShopUrl == <<"https:", "//", "shop", ".com", "/", "p">>
AmazonInUrl == <<"https:", "//", "www.", "amazon", ".in", "/", "dp">>
FtpUrl == <<"ftp:", "//", "shop", ".com", "/", "p">>
BareUrl == <<"shop", ".com", "/", "p">>

Urls == {ShopUrl, AmazonInUrl, FtpUrl, BareUrl}

TitleElem(text) == Elem("h1", "productTitle", {"product-title"}, {}, text)
PriceElem(text) == Elem("span", "priceblock_ourprice", {"price"}, {}, text)
ImageElem(src) ==
    WithAttrs(Elem("img", "main-image", {}, {}, << >>), [NoAttrs EXCEPT !.src = [src |-> src]])

OkPage == Page(<<TitleElem(<<"W">>), PriceElem(<<"$", "1", "9", ".", "9", "9">>)>>, << >>)
ZeroPage == Page(<<TitleElem(<<"W">>), PriceElem(<<"$", "0", ".", "0", "0">>)>>, << >>)
EmptyTitlePage == Page(<<TitleElem(<<" ">>), PriceElem(<<"$", "5">>)>>, << >>)
NoPricePage == Page(<<TitleElem(<<"W">>)>>, << >>)
RelativeImagePage ==
    Page(<<TitleElem(<<"W">>), PriceElem(<<"$", "5">>), ImageElem(<<"/", "img">>)>>, << >>)
CaptchaPage ==
    Page(<<TitleElem(<<"W">>), PriceElem(<<"$", "5">>)>>,
         <<"E", "n", "t", "e", "r", " ", "C", "A", "P", "T", "C", "H", "A">>)
RobotCheckPage ==
    Page(<<TitleElem(<<"R", "o", "b", "o", "t", " ", "C", "h", "e", "c", "k">>)>>, << >>)

CleanPages == {OkPage, ZeroPage, EmptyTitlePage, NoPricePage, RelativeImagePage}
ChallengePages == {CaptchaPage, RobotCheckPage}

Clean == {Served(p) : p \in CleanPages}
Bad == {Failed("ConnectionError")} \cup {Served(p) : p \in ChallengePages}

\* what a site answers to the attempts of one fetch: the answers up to the
\* first clean page, max_retries of them at most
Scripts ==
    {<<c>> : c \in Clean}
        \cup {<<b, c>> : b \in Bad, c \in Clean}
        \cup {<<b1, b2, x>> : b1 \in Bad, b2 \in Bad, x \in Bad \cup Clean}

\* the answer to request k of the fetch; a site that is asked more often than
\* the script is long does not answer
Answer(sc, k) == IF k <= Len(sc) THEN sc[k] ELSE Failed("Timeout")

\* --------------------------------------------------------------------------
(* The documents and URLs the extraction is explored on. *)

ShopInUrl == <<"https:", "//", "shop", ".in", "/", "p">>
ShopUkUrl == <<"https:", "//", "shop", ".co", ".uk", "/", "p">>
ShopDeUrl == <<"https:", "//", "shop", ".de", "/", "p">>
InPathUrl == <<"https:", "//", "shop", ".com", "/", "a", ".in", "/", "p">>
BareInUrl == <<"https:", "//", "shop", ".in">>
AmazonComUrl == <<"https:", "//", "www.", "amazon", ".com", "/", "dp">>

ExtractUrls ==
    {ShopUrl, ShopInUrl, ShopUkUrl, ShopDeUrl, InPathUrl, BareInUrl, AmazonInUrl,
     AmazonComUrl}

\* price strings as a page shows them
BasePrices ==
    { <<"5">>, <<"1", ".", "5">>, <<"3", "7", "4", "9", "0", ".", "0", "0">>,
      <<"1", ",", "2", "9", "9", ".", "0", "0">>,
      <<"$", "5">>, <<"₹", "5">>, <<"€", "5">>, <<"£", "5">>, <<"¥", "5">> }

\* a price behind a sign that is no currency glyph, and a text without a number
OtherPrices == { <<"R", "s", "5">>, <<"a", "b", "c">> }

\* single prices whose digit string is two identical halves
SelfSimilarPrices == { <<"9", "9">>, <<"1", "0", "1", "0">>, <<"1", "2", "1", "2">> }

PricePage(text) == Page(<<TitleElem(<<"W">>), PriceElem(text)>>, << >>)

WholeElem(text) == Elem("span", "", {"a-price-whole"}, {}, text)
FractionElem(text) == Elem("span", "", {"a-price-fraction"}, {}, text)
SymbolElem(text) == Elem("span", "", {"a-price-symbol"}, {}, text)

\* a price split into a whole and a fraction element, symbols being the
\* symbol elements after them
WholeFractionPage(whole, fraction, symbols) ==
    Page(<<TitleElem(<<"W">>), WholeElem(whole), FractionElem(fraction)>> \o symbols,
         << >>)

Wholes == { << >>, <<"1", ",", "2", "9", "9">> }
Symbols == { << >>, <<SymbolElem(<<"€">>)>>, <<SymbolElem(<<"₩">>)>> }

RupeeTextPage == Page(<<TitleElem(<<"W">>)>>, <<"₹", " ", "5">>)
BuyNewPage ==
    Page(<<TitleElem(<<"W">>),
           Elem("div", "", {"a-color-price"}, {"#buyNewSection"}, <<"5">>)>>, << >>)
RawAmountPage == Page(<<TitleElem(<<"W">>)>>, <<"\"priceAmount\":", "5">>)

\* a "Buy New" section showing 5 and a JSON price field holding 7
JsonAndBuyNewPage == Page(BuyNewPage.elems, <<"\"priceAmount\":", "7">>)

\* two price elements: one of class "current-price", the last selector of the
\* generic list, comes first in the document, one of class "price", the
\* first selector, comes second
TwoPricesPage(current, price) ==
    Page(<<TitleElem(<<"W">>), Elem("span", "", {"current-price"}, {}, current),
           Elem("span", "", {"price"}, {}, price)>>, << >>)

TwoPricesPages ==
    { TwoPricesPage(<<"$", "7">>, <<"$", "5">>),
      TwoPricesPage(<<"$", "7">>, << >>),
      TwoPricesPage(<<"$", "7">>, <<"a", "b", "c">>) }

Documents ==
    {PricePage(s) : s \in BasePrices \cup OtherPrices \cup SelfSimilarPrices}
        \cup {PricePage(s \o s) : s \in BasePrices}
        \cup {WholeFractionPage(w, <<"9", "9">>, sy) : w \in Wholes, sy \in Symbols}
        \cup {RupeeTextPage, BuyNewPage, RawAmountPage, JsonAndBuyNewPage, NoPricePage}
        \cup TwoPricesPages

\* --------------------------------------------------------------------------
(* The entry points and the steps of one scrape. *)

Idle == pc = "idle"

\* an entry point is called with url u
Call(e, u) ==
    /\ Idle
    /\ clock < MaxWrites
    /\ entry' = e
    /\ url' = u
    /\ UNCHANGED <<attempt, calls, slept, html, error, product_data>>

\* the entry point returns r: the scraper and the locals of the scrape are gone
Return(r) ==
    /\ pc' = "idle"
    /\ ret' = r
    /\ scraper' = None
    /\ script' = << >>
    /\ attempt' = 0
    /\ calls' = 0
    /\ slept' = 0
    /\ html' = None
    /\ error' = None
    /\ product_data' = None

\* the entry point returns r without having scraped
ReturnEarly(r) ==
    /\ pc' = "idle"
    /\ ret' = r
    /\ UNCHANGED <<scraper, script>>

\* scraper = ScraperFactory.get_scraper(url); scraper.scrape() starts
StartScrape(u) ==
    /\ pc' = "fetch"
    /\ ret' = ""
    /\ \E ua \in USER_AGENTS : scraper' = get_scraper(registry, u, ua)
    /\ script' \in (IF HasHttpPrefix(u) THEN Scripts ELSE {<< >>})

\* add_product.py: add_product(url), up to the call of scraper.scrape()
CliAddProduct(u) ==
    /\ Call("add_product", u)
    /\ IF ~HasHttpPrefix(u)
       THEN ReturnEarly("False") /\ UNCHANGED products
       ELSE IF u \in products
       THEN ReturnEarly("True") /\ UNCHANGED products
       ELSE products' = add_product(products, u) /\ StartScrape(u)
    /\ UNCHANGED <<registry, price_histories, clock>>
    /\ UNCHANGED <<heap, workers>>

\* dashboard.py: add_new_product(url), up to the call of scraper.scrape()
DashboardAddProduct(u) ==
    /\ Call("add_new_product", u)
    /\ IF ~HasHttpPrefix(u) THEN ReturnEarly("False") ELSE StartScrape(u)
    /\ UNCHANGED <<registry, products, price_histories, clock>>
    /\ UNCHANGED <<heap, workers>>

\* check_prices.py: check_product(url), up to the call of scraper.scrape()
CheckProduct(u) ==
    /\ Call("check_product", u)
    /\ StartScrape(u)
    /\ UNCHANGED <<registry, products, price_histories, clock>>
    /\ UNCHANGED <<heap, workers>>

\* tasks.py: scrape_product(url), up to the call of scraper.scrape()
ScrapeProduct(u) ==
    /\ Call("scrape_product", u)
    /\ StartScrape(u)
    /\ UNCHANGED <<registry, products, price_histories, clock>>
    /\ UNCHANGED <<heap, workers>>

\* ScraperFactory.get_scraper(url).scrape(), called directly
Scrape(u) ==
    /\ Call("scrape", u)
    /\ StartScrape(u)
    /\ UNCHANGED <<registry, products, price_histories, clock>>
    /\ UNCHANGED <<heap, workers>>

\* what one pass of the loop leaves behind, step being its outcome
AfterIteration(step) ==
    /\ calls' = calls + 1
    /\ slept' = slept + step.sleep
    /\ \E ua \in (IF step.rotate THEN USER_AGENTS ELSE {scraper.headers.ua}) :
          scraper' = [scraper EXCEPT !.headers =
                        [ua |-> ua,
                         referer |-> IF attempt > 0 THEN TRUE
                                     ELSE scraper.headers.referer]]
    /\ html' = step.html
    /\ error' = step.error
    /\ IF step.next = "continue"
       THEN /\ attempt' = attempt + 1
            /\ pc' = IF attempt + 1 < max_retries THEN "fetch" ELSE "extract"
       ELSE /\ attempt' = attempt
            /\ pc' = IF step.next = "return" THEN "extract" ELSE "raised"

\* _fetch_page: one pass of the loop (lines 68-102)
FetchAttempt ==
    /\ pc = "fetch"
    /\ AfterIteration(Iteration(attempt, Respond(scraper.url, Answer(script, calls + 1))))
    /\ UNCHANGED <<registry, products, price_histories, clock, entry, url, script,
                   product_data, ret>>
    /\ UNCHANGED <<heap, workers>>

\* a scrape() that fetches the page again when extraction or validation
\* failed
AfterScrapeRefetch(got) ==
    /\ clock' = clock
    /\ IF "raised" \in DOMAIN got
       THEN /\ error' = None
            /\ product_data' = None
            /\ pc' = "fetch"
       ELSE /\ error' = None
            /\ product_data' = got
            /\ pc' = "scraped"

\* what scrape() leaves behind, got being the record or the exception; the
\* timestamp is taken once _extract_data has returned
AfterScrape(got) ==
    /\ clock' = IF "raised" \in DOMAIN got /\ got # ValidationError
                THEN clock ELSE clock + 1
    /\ IF "raised" \in DOMAIN got
       THEN /\ error' = [cls |-> got.raised]
            /\ product_data' = None
            /\ pc' = "raised"
       ELSE /\ error' = None
            /\ product_data' = got
            /\ pc' = "scraped"

\* scrape(), after the fetch: extraction, the timestamp and validation
ExtractAndValidate ==
    /\ pc = "extract"
    /\ AfterScrape(ScrapePage(scraper.cls, html, scraper.url, clock))
    /\ UNCHANGED <<registry, products, price_histories, entry, url, scraper, script,
                   attempt, calls, slept, html, ret>>
    /\ UNCHANGED <<heap, workers>>

\* scrape() returned: the entry point stores the record and returns
Persist ==
    /\ pc = "scraped"
    /\ IF entry = "scrape"
       THEN /\ Return("product_data")
            /\ UNCHANGED <<products, price_histories>>
       ELSE /\ Return("True")
            /\ products' = add_price(products, price_histories, product_data).products
            /\ price_histories' =
                 add_price(products, price_histories, product_data).price_histories
    /\ UNCHANGED <<registry, clock, entry, url>>
    /\ UNCHANGED <<heap, workers>>

\* scrape() raised: the entry point's except clause logs and returns False;
\* a direct caller of scrape() sees the exception
Handle ==
    /\ pc = "raised"
    /\ Return(IF entry = "scrape" THEN "raise" ELSE "False")
    /\ UNCHANGED <<registry, products, price_histories, clock, entry, url>>
    /\ UNCHANGED <<heap, workers>>

\* --------------------------------------------------------------------------
(* Concurrent workers.  Each runs get_scraper(url).scrape() from start to   *)
(* end; a header dict is an object on the heap, and an instance holds a     *)
(* reference to its dict.                                                   *)

Workers == {"w1", "w2"}

\* the dict BaseScraper.DEFAULT_HEADERS names: no User-Agent (0), no Referer
ClassHeaders == "DEFAULT_HEADERS"
DefaultHeaders == [ua |-> 0, referer |-> FALSE]

\* the dicts alive when no scrape runs
ClassDicts == ClassHeaders :> DefaultHeaders

\* an assignment that binds the dict d itself instead of a copy of it
AliasDict(hp, d, new) == [ref |-> d, heap |-> hp]

\* dict(d): a new dict, named new, with the items of d
CopyDict(hp, d, new) == [ref |-> new, heap |-> (new :> hp[d]) @@ hp]

\* self.headers["User-Agent"] = ua, self.headers being the dict ref
SetAgent(hp, ref, ua) == [hp EXCEPT ![ref].ua = ua]

\* self.headers["Referer"] = "https://www.google.com/"
SetReferer(hp, ref) == [hp EXCEPT ![ref].referer = TRUE]

\* BaseScraper.__init__, lines 55-57: made is what line 56 bound
Constructed(made, ua) == [ref |-> made.ref, heap |-> SetAgent(made.heap, made.ref, ua)]

\* a get_scraper that remembers the class it found under the host
RegistryMemo(reg, u) == SetItem(reg, Netloc(u), ScraperClassFrom(reg, Netloc(u), 1))

\* ScraperFactory._registry after get_scraper(u): the loop only reads it
RegistryAfterGet(reg, u) == reg

WorkerUrls == {ShopUrl, AmazonInUrl}

WorkerScripts ==
    { <<Served(OkPage)>>,
      <<Served(CaptchaPage), Served(OkPage)>>,
      <<Failed("ConnectionError"), Served(CaptchaPage), Served(NoPricePage)>>,
      <<Served(RobotCheckPage), Failed("ConnectionError"), Served(CaptchaPage)>> }

WorkerUnchanged ==
    UNCHANGED <<products, price_histories, clock, pc, entry, url, scraper, script,
                attempt, calls, slept, html, error, product_data, ret>>

\* the frame of worker w after get_scraper(u): scraper is the instance as
\* the scrape itself sees it, headers the dict its self.headers refers to
WorkerStarts(w, u, ua, made) ==
    /\ heap' = made.heap
    /\ \E sc \in WorkerScripts :
          workers' = [workers EXCEPT ![w] =
                        [scraper |-> get_scraper(registry, u, ua), headers |-> made.ref,
                         script |-> sc, attempt |-> 0, calls |-> 0, pc |-> "fetch",
                         html |-> None, result |-> None]]

\* worker w: scraper = ScraperFactory.get_scraper(u)
WorkerGetScraper(w, u, ua) ==
    /\ workers[w] = None
    /\ WorkerStarts(w, u, ua, Constructed(CopyDict(heap, ClassHeaders, w), ua))
    /\ registry' = RegistryAfterGet(registry, u)
    /\ WorkerUnchanged

\* what one pass of worker w's fetch loop leaves behind, step being its
\* outcome: lines 73-74 write the Referer, line 90 the new User-Agent
WorkerAfterIteration(w, step) ==
    \E ua \in (IF step.rotate THEN USER_AGENTS ELSE {workers[w].scraper.headers.ua}) :
       /\ heap' =
            IF workers[w].attempt > 0
            THEN IF step.rotate
                 THEN SetAgent(SetReferer(heap, workers[w].headers), workers[w].headers, ua)
                 ELSE SetReferer(heap, workers[w].headers)
            ELSE IF step.rotate THEN SetAgent(heap, workers[w].headers, ua)
            ELSE heap
       /\ workers' = [workers EXCEPT ![w] =
            [@ EXCEPT
               !.scraper = [@ EXCEPT !.headers =
                              [ua |-> ua,
                               referer |-> IF workers[w].attempt > 0 THEN TRUE
                                           ELSE @.referer]],
               !.calls = @ + 1,
               !.html = step.html,
               !.result = IF step.next = "raise" THEN [raised |-> step.error.cls] ELSE None,
               !.attempt = IF step.next = "continue" THEN @ + 1 ELSE @,
               !.pc = IF step.next = "continue" THEN "fetch"
                      ELSE IF step.next = "return" THEN "extract"
                      ELSE "ended"]]

\* worker w: one pass of the loop of _fetch_page
WorkerFetchAttempt(w) ==
    /\ workers[w] # None
    /\ workers[w].pc = "fetch"
    /\ WorkerAfterIteration(w, Iteration(workers[w].attempt,
                                         Respond(workers[w].scraper.url,
                                                 Answer(workers[w].script,
                                                        workers[w].calls + 1))))
    /\ WorkerUnchanged
    /\ UNCHANGED registry

\* worker w: scrape() after the fetch; the clock stands still here, the
\* timestamp plays no part
WorkerExtract(w) ==
    /\ workers[w] # None
    /\ workers[w].pc = "extract"
    /\ workers' = [workers EXCEPT ![w] =
                     [@ EXCEPT !.pc = "ended",
                               !.result = ScrapePage(workers[w].scraper.cls,
                                                     workers[w].html,
                                                     workers[w].scraper.url, clock)]]
    /\ WorkerUnchanged
    /\ UNCHANGED <<registry, heap>>

\* worker w: scrape() has returned or raised; the instance and its dict are
\* garbage
WorkerReturn(w) ==
    /\ workers[w] # None
    /\ workers[w].pc = "ended"
    /\ workers' = [workers EXCEPT ![w] = None]
    /\ heap' = [d \in DOMAIN heap \ {w} |-> heap[d]]
    /\ WorkerUnchanged
    /\ UNCHANGED registry

NextWorkers ==
    \/ \E w \in Workers, u \in WorkerUrls, ua \in USER_AGENTS : WorkerGetScraper(w, u, ua)
    \/ \E w \in Workers : WorkerFetchAttempt(w)
    \/ \E w \in Workers : WorkerExtract(w)
    \/ \E w \in Workers : WorkerReturn(w)

\* --------------------------------------------------------------------------
(* The batch runs: check_all_products under the scheduler's two jobs and    *)
(* scrape_all_products under process_all, each in a thread of its own.      *)

\* the ids of the jobs start_scheduler adds when email and daily_report are set
Jobs == {"price_check_job", "daily_report_job"}

\* the threads that run a batch: the two jobs, and a process_all run
Runners == Jobs \cup {"process_all"}

SchedUrls == {ShopUrl, AmazonInUrl}

\* what a site answers to the requests of one check
SchedScripts ==
    { <<Served(OkPage)>>,
      <<Served(NoPricePage)>>,
      <<Failed("ConnectionError"), Failed("Timeout"), Failed("ConnectionError")>> }

RECURSIVE FetchPage(_, _, _)
\* _fetch_page once pass a has had the outcome step
FetchFrom(u, sc, a, step) ==
    IF step.next = "continue"
    THEN IF a + 1 < max_retries THEN FetchPage(u, sc, a + 1) ELSE [html |-> None]
    ELSE IF step.next = "return" THEN [html |-> step.html]
    ELSE [raised |-> step.error.cls]

\* _fetch_page from attempt a on, against a site that answers by sc:
\* [html |-> the page], or the exception raised
FetchPage(u, sc, a) == FetchFrom(u, sc, a, Iteration(a, Respond(u, Answer(sc, a + 1))))

\* scrape() after _fetch_page has ended with fetched
ScrapeFetched(cls, fetched, u, now) ==
    IF "raised" \in DOMAIN fetched THEN fetched
    ELSE ScrapePage(cls, fetched.html, u, now)

\* get_scraper(u).scrape() at time now: the record, or the exception raised
scrape(reg, u, sc, now) ==
    ScrapeFetched(ScraperClassFrom(reg, Netloc(u), 1), FetchPage(u, sc, 0), u, now)

\* a check_product that lets the exception of a failed scrape through
CheckedOrRaised(got, prods, hist) ==
    IF "raised" \in DOMAIN got
    THEN [ok |-> FALSE, raised |-> TRUE, products |-> prods, price_histories |-> hist]
    ELSE [ok |-> TRUE, raised |-> FALSE,
          products |-> add_price(prods, hist, got).products,
          price_histories |-> add_price(prods, hist, got).price_histories]

\* check_product / scrape_product once scrape() has ended with got: the
\* value returned, whether an exception left the function, and the store
Checked(got, prods, hist) ==
    IF "raised" \in DOMAIN got
    THEN [ok |-> FALSE, raised |-> FALSE, products |-> prods, price_histories |-> hist]
    ELSE [ok |-> TRUE, raised |-> FALSE,
          products |-> add_price(prods, hist, got).products,
          price_histories |-> add_price(prods, hist, got).price_histories]

RECURSIVE Orderings(_)
\* session.query(Product).all(): the rows in an order the query does not fix
Orderings(S) ==
    IF S = {} THEN {<< >>}
    ELSE UNION {{<<x>> \o rest : rest \in Orderings(S \ {x})} : x \in S}

SchedUnchanged ==
    UNCHANGED <<registry, pc, entry, url, scraper, script, attempt, calls, slept, html,
                error, product_data, ret, heap>>

Running(r) == workers[r] # None /\ workers[r].pc # "done"

\* runner r starts its batch: products = db.get_all_products(), and the
\* early return when there are none
BatchStarts(r) ==
    /\ workers[r] = None
    /\ \E all \in Orderings(products) :
          workers' = [workers EXCEPT ![r] =
                        [products |-> all, i |-> 1, success_count |-> 0,
                         pc |-> IF all = << >> THEN "done" ELSE "loop",
                         attempted |-> << >>]]
    /\ UNCHANGED <<products, price_histories, clock>>
    /\ SchedUnchanged

\* runner r: the loop calls check_product(product.url) and the scrape starts
CheckStarts(r) ==
    /\ workers[r] # None
    /\ workers[r].pc = "loop"
    /\ workers[r].i <= Len(workers[r].products)
    /\ workers' = [workers EXCEPT ![r] =
                     [@ EXCEPT !.pc = "checking",
                               !.attempted = Append(@, workers[r].products[workers[r].i])]]
    /\ UNCHANGED <<products, price_histories, clock>>
    /\ SchedUnchanged

\* what runner r's loop does with the result of the call
AfterCheck(r, result) ==
    /\ products' = result.products
    /\ price_histories' = result.price_histories
    /\ workers' = [workers EXCEPT ![r] =
                     [@ EXCEPT !.pc = IF result.raised THEN "done" ELSE "loop",
                               !.i = @ + 1,
                               !.success_count = IF result.ok THEN @ + 1 ELSE @]]

\* runner r: the scrape of check_product ends against a site that answers
\* by sc, the record is stored, and the loop counts the True
CheckEnds(r) ==
    /\ workers[r] # None
    /\ workers[r].pc = "checking"
    /\ \E sc \in SchedScripts :
          AfterCheck(r, Checked(scrape(registry, workers[r].products[workers[r].i], sc, clock),
                                products, price_histories))
    /\ clock' = clock + 1
    /\ SchedUnchanged

\* runner r: the loop is over, the count is logged and the batch returns
BatchEnds(r) ==
    /\ workers[r] # None
    /\ workers[r].pc = "loop"
    /\ workers[r].i > Len(workers[r].products)
    /\ workers' = [workers EXCEPT ![r] = [@ EXCEPT !.pc = "done"]]
    /\ UNCHANGED <<products, price_histories, clock>>
    /\ SchedUnchanged

InitScheduler ==
    /\ registry = discover_scrapers(<< >>)
    /\ products \in SUBSET SchedUrls
    /\ price_histories = {}
    /\ clock = 0
    /\ pc = "idle"
    /\ entry = ""
    /\ url = << >>
    /\ scraper = None
    /\ script = << >>
    /\ attempt = 0
    /\ calls = 0
    /\ slept = 0
    /\ html = None
    /\ error = None
    /\ product_data = None
    /\ ret = ""
    /\ heap = ClassDicts
    /\ workers = [r \in Runners |-> None]

NextScheduler ==
    \/ \E r \in Runners : BatchStarts(r)
    \/ \E r \in Runners : CheckStarts(r)
    \/ \E r \in Runners : CheckEnds(r)
    \/ \E r \in Runners : BatchEnds(r)

\* the thread of runner r is scheduled while check_product is in progress
CheckRuns(r) == workers[r] # None /\ workers[r].pc = "checking" /\ clock' = clock + 1

\* each job fired once and one process_all run, interleaved in every order
\* by a scheduler that lets every thread run
SpecScheduler ==
    /\ InitScheduler
    /\ [][NextScheduler]_vars
    /\ \A r \in Runners : /\ WF_workers(CheckStarts(r))
                          /\ WF_clock(CheckRuns(r))
                          /\ WF_workers(BatchEnds(r))

Init ==
    /\ registry = discover_scrapers(<< >>)
    /\ products = {}
    /\ price_histories = {}
    /\ clock = 0
    /\ pc = "idle"
    /\ entry = ""
    /\ url = << >>
    /\ scraper = None
    /\ script = << >>
    /\ attempt = 0
    /\ calls = 0
    /\ slept = 0
    /\ html = None
    /\ error = None
    /\ product_data = None
    /\ ret = ""
    /\ heap = ClassDicts
    /\ workers = [w \in Workers |-> None]

Next ==
    \/ \E u \in Urls : CliAddProduct(u)
    \/ \E u \in Urls : DashboardAddProduct(u)
    \/ \E u \in Urls : CheckProduct(u)
    \/ \E u \in Urls : ScrapeProduct(u)
    \/ \E u \in Urls : Scrape(u)
    \/ FetchAttempt
    \/ ExtractAndValidate
    \/ Persist
    \/ Handle

Spec == Init /\ [][Next]_vars

\* a pass of the _fetch_page loop, as far as its scheduling goes: the loop is
\* in progress and its next request is made
LoopRuns == pc = "fetch" /\ calls' = calls + 1

\* the scrape pipeline with its loop scheduled: a fetch that has started is
\* not left waiting forever
SpecFetch == Init /\ [][Next]_vars /\ WF_calls(LoopRuns)

\* --------------------------------------------------------------------------
(* The extraction on its own: scrape() on sites that serve a document at    *)
(* the first request, and the same document extracted again.                *)

\* get_scraper(u).scrape() up to the parsed document: _fetch_page returns
\* doc from its first request
ScrapeDocument(doc, u, ua) ==
    /\ Idle
    /\ clock < MaxWrites
    /\ entry' = "scrape"
    /\ url' = u
    /\ pc' = "extract"
    /\ ret' = ""
    /\ scraper' = get_scraper(registry, u, ua)
    /\ script' = <<Served(doc)>>
    /\ calls' = 1
    /\ html' = doc
    /\ UNCHANGED <<registry, products, price_histories, clock, attempt, slept, error,
                   product_data>>
    /\ UNCHANGED <<heap, workers>>

\* the document is parsed, extracted and validated once more, by the same
\* instance or by one constructed for the same URL; product_data and error
\* still hold what the run before left
ScrapeAgain ==
    /\ pc \in {"scraped", "raised"}
    /\ clock <= MaxWrites
    /\ pc' = "extract"
    /\ scraper' \in {scraper} \cup {get_scraper(registry, url, ua) : ua \in USER_AGENTS}
    /\ UNCHANGED <<registry, products, price_histories, clock, entry, url, script,
                   attempt, calls, slept, html, error, product_data, ret>>
    /\ UNCHANGED <<heap, workers>>

NextExtract ==
    \/ \E doc \in Documents, u \in ExtractUrls, ua \in USER_AGENTS :
          ScrapeDocument(doc, u, ua)
    \/ ScrapeAgain
    \/ ExtractAndValidate
    \/ Persist
    \/ Handle

SpecExtract == Init /\ [][NextExtract]_vars

\* --------------------------------------------------------------------------
(* The store on its own: add_price with records of any URL and time, and    *)
(* the two queries.                                                         *)

MaxTime == 2
MaxRows == 3

StoreUrls == {ShopUrl, AmazonInUrl}

StoreRecords ==
    [url : StoreUrls, name : {<<"W">>}, price : {[n |-> 5, d |-> 0], [n |-> 7, d |-> 0]},
     currency : {"USD"}, main_image_url : {None}, timestamp : 0..MaxTime]

\* db.add_price(data), for a record whose URL has no row of that timestamp yet
AddPrice(data) ==
    /\ Idle
    /\ Cardinality(price_histories) < MaxRows
    /\ \A r \in price_histories : r.id # PriceHistory(data).id
    /\ product_data' = data
    /\ products' = add_price(products, price_histories, data).products
    /\ price_histories' = add_price(products, price_histories, data).price_histories
    /\ UNCHANGED <<registry, clock, pc, entry, url, scraper, script, attempt, calls,
                   slept, html, error, ret>>
    /\ UNCHANGED <<heap, workers>>

\* db.get_price_history(u): the caller holds the rows of u as the store has
\* them now
GetPriceHistory(u) ==
    /\ Idle
    /\ url' = u
    /\ ret' = "history"
    /\ UNCHANGED <<registry, products, price_histories, clock, pc, entry, scraper,
                   script, attempt, calls, slept, html, error, product_data>>
    /\ UNCHANGED <<heap, workers>>

\* db.get_latest_price(u): the caller holds the newest row of u, or None
GetLatestPrice(u) ==
    /\ Idle
    /\ url' = u
    /\ ret' = "latest"
    /\ UNCHANGED <<registry, products, price_histories, clock, pc, entry, scraper,
                   script, attempt, calls, slept, html, error, product_data>>
    /\ UNCHANGED <<heap, workers>>

NextStore ==
    \/ \E data \in StoreRecords : AddPrice(data)
    \/ \E u \in StoreUrls : GetPriceHistory(u)
    \/ \E u \in StoreUrls : GetLatestPrice(u)

\* db.add_product(u)
AddProduct(u) ==
    /\ Idle
    /\ products' = add_product(products, u)
    /\ entry' = "add_product"
    /\ url' = u
    /\ UNCHANGED <<registry, price_histories, clock, pc, scraper, script, attempt, calls,
                   slept, html, error, product_data, ret>>
    /\ UNCHANGED <<heap, workers>>

\* db.add_price(data), for a record whose URL has no row of that timestamp
\* yet, the caller noting the call
TrackPrice(data) ==
    /\ Idle
    /\ Cardinality(price_histories) < MaxRows
    /\ \A r \in price_histories : r.id # PriceHistory(data).id
    /\ product_data' = data
    /\ products' = add_price(products, price_histories, data).products
    /\ price_histories' = add_price(products, price_histories, data).price_histories
    /\ entry' = "add_price"
    /\ url' = data.url
    /\ UNCHANGED <<registry, clock, pc, scraper, script, attempt, calls,
                   slept, html, error, ret>>
    /\ UNCHANGED <<heap, workers>>

\* what the caller of delete_product(u) is left with
Deleted(u, result) ==
    /\ products' = result.products
    /\ price_histories' = result.price_histories
    /\ ret' = IF result.ret THEN "True" ELSE "False"
    /\ entry' = "delete_product"
    /\ url' = u

\* db.delete_product(u)
DeleteProduct(u) ==
    /\ Idle
    /\ Deleted(u, delete_product(products, price_histories, u))
    /\ UNCHANGED <<registry, clock, pc, scraper, script, attempt, calls,
                   slept, html, error, product_data>>
    /\ UNCHANGED <<heap, workers>>

NextIntegrity ==
    \/ \E u \in StoreUrls : AddProduct(u)
    \/ \E data \in StoreRecords : TrackPrice(data)
    \/ \E u \in StoreUrls : DeleteProduct(u)

\* the store under add_product, add_price and delete_product in every order
SpecIntegrity == Init /\ [][NextIntegrity]_vars

\* --------------------------------------------------------------------------
(* The analysis: price_analysis.py. Numbers are exact fractions             *)
(* [num, den] with den > 0, and the clock ticks once in thirty days.        *)

RECURSIVE Pow10(_)
Pow10(k) == IF k = 0 THEN 1 ELSE 10 * Pow10(k - 1)

\* the value of a float [n, d] as a fraction
Fraction(p) == [num |-> p.n, den |-> Pow10(p.d)]

Whole(k) == [num |-> k, den |-> 1]

\* a >= b
AtLeast(a, b) == a.num * b.den >= b.num * a.den

\* _calculate_drop_percentage(old_price, new_price)
calculate_drop_percentage(old_price, new_price) ==
    IF AtLeast(Whole(0), old_price) \/ AtLeast(new_price, old_price)
    THEN Whole(0)
    ELSE [num |-> (old_price.num * new_price.den - new_price.num * old_price.den)
                     * old_price.den * 100,
          den |-> old_price.den * new_price.den * old_price.num]

\* max(records, key=lambda x: x.price): the first record of the highest price
HighestPrice(records) ==
    records[CHOOSE i \in 1..Len(records) :
               /\ \A j \in 1..Len(records) :
                     AtLeast(Fraction(records[i].price), Fraction(records[j].price))
               /\ \A j \in 1..(i - 1) :
                     ~AtLeast(Fraction(records[j].price), Fraction(records[i].price))]

\* lines 73-77: the drop against the highest price of the last 30 days
HighestDrop(last_30_days, latest) ==
    IF last_30_days # << >>
    THEN calculate_drop_percentage(Fraction(HighestPrice(last_30_days).price),
                                   Fraction(latest.price))
    ELSE Whole(0)

\* lines 80-98: the alert, or None
AlertFrom(u, latest, previous, last_30_days, prev_drop_pct, highest_drop_pct, threshold) ==
    LET drop_pct == IF ~AtLeast(prev_drop_pct, highest_drop_pct)
                    THEN highest_drop_pct ELSE prev_drop_pct
        reference_price == IF AtLeast(prev_drop_pct, highest_drop_pct)
                           THEN previous.price ELSE HighestPrice(last_30_days).price
    IN  IF AtLeast(drop_pct, threshold)
        THEN [product_name |-> latest.name, product_url |-> u,
              old_price |-> reference_price, new_price |-> latest.price,
              drop_percentage |-> drop_pct, currency |-> latest.currency,
              image_url |-> latest.main_image_url]
        ELSE None

\* lines 63-101, for a history of two records or more
Analyzed(u, history, latest, previous, last_30_days, threshold) ==
    AlertFrom(u, latest, previous, last_30_days,
              calculate_drop_percentage(Fraction(previous.price), Fraction(latest.price)),
              HighestDrop(last_30_days, latest), threshold)

Recent(record, now) == record.timestamp >= now - 1

\* PriceAnalyzer.analyze_product(url) at time now
analyze_product(hist, u, threshold, now) ==
    LET history == get_price_history(hist, u, None)
    IN  IF Len(history) < 2 THEN None
        ELSE Analyzed(u, history, history[Len(history)], history[Len(history) - 1],
                      SelectSeq(history, LAMBDA record : Recent(record, now)), threshold)

\* the values PRICE_DROP_THRESHOLD can be given in the environment
EnvThresholds == {Whole(0), Whole(5), Whole(30)}

\* the threshold argument of PriceAnalyzer(...)
ThresholdArgs == {None, Whole(0), Whole(30)}

\* line 42: self.threshold = threshold or PRICE_DROP_THRESHOLD
Threshold(threshold, PRICE_DROP_THRESHOLD) ==
    IF threshold = None \/ threshold.num = 0 THEN PRICE_DROP_THRESHOLD ELSE threshold

\* what the caller of analyze_product holds: the alert or None, with the
\* threshold and the time of the call
Analysis(alert, threshold, now) == [alert |-> alert, threshold |-> threshold, now |-> now]

\* PriceAnalyzer(arg).analyze_product(u) at a time now that no stored record
\* is later than
AnalyzeProduct(u, arg, env, now) ==
    /\ Idle
    /\ entry' = "analyze_product"
    /\ url' = u
    /\ ret' = Analysis(analyze_product(price_histories, u, Threshold(arg, env), now),
                       Threshold(arg, env), now)
    /\ UNCHANGED <<registry, products, price_histories, clock, pc, scraper, script,
                   attempt, calls, slept, html, error, product_data>>
    /\ UNCHANGED <<heap, workers>>

NextAnalysis ==
    \/ \E data \in StoreRecords : TrackPrice(data)
    \/ \E u \in StoreUrls, arg \in ThresholdArgs, env \in EnvThresholds,
          now \in MaxTime..(MaxTime + 2) : AnalyzeProduct(u, arg, env, now)

\* the store under add_price, analysed at any moment
SpecAnalysis == Init /\ [][NextAnalysis]_vars

SpecStore == Init /\ [][NextStore]_vars

\* the workers' scrapes, interleaved in every order
SpecWorkers == Init /\ [][NextWorkers]_vars

\* --------------------------------------------------------------------------
(* The dispatcher on its own: the registry from the import of               *)
(* scraper_factory.py on, under calls of register and get_scraper.          *)

AmazonShopUrl == <<"https:", "//", "shop", ".", "amazon", ".com", "/", "p">>
DispatchUrls == Urls \cup {AmazonShopUrl}

\* what register is called with: a domain string, or a list of them
Single(key) == [isList |-> FALSE, key |-> key]
ShopDOMAIN == [isList |-> TRUE, keys |-> << <<"shop">>, <<"amazon">> >>]
ListDomains == {AmazonDOMAIN, ShopDOMAIN}
Domains ==
    {Single(k) : k \in {<<"amazon">>, <<"shop">>, <<"amazon", ".in">>, <<".org">>}}
        \cup ListDomains

\* the strategy classes registered: amazon_scraper.Scraper and one more
Classes == {"Scraper", "ShopScraper"}

DispatchUnchanged ==
    UNCHANGED <<products, price_histories, clock, pc, script, attempt, calls, slept,
                html, error, product_data, ret>>

\* line 79: discover_scrapers(), at import and whenever it is called again
DiscoverScrapers ==
    /\ registry' = discover_scrapers(registry)
    /\ Len(registry') <= MaxRegistry
    /\ entry' = "discover_scrapers"
    /\ UNCHANGED <<url, scraper>>
    /\ DispatchUnchanged
    /\ UNCHANGED <<heap, workers>>

\* ScraperFactory.register(domain, cls), once the module is imported
Register(domain, cls) ==
    /\ entry # ""
    /\ registry' = register(registry, domain, cls)
    /\ Len(registry') <= MaxRegistry
    /\ entry' = "register"
    /\ UNCHANGED <<url, scraper>>
    /\ DispatchUnchanged
    /\ UNCHANGED <<heap, workers>>

\* ScraperFactory.get_scraper(u), once the module is imported
GetScraper(u) ==
    /\ entry # ""
    /\ \E ua \in USER_AGENTS : scraper' = get_scraper(registry, u, ua)
    /\ url' = u
    /\ entry' = "get_scraper"
    /\ UNCHANGED registry
    /\ DispatchUnchanged
    /\ UNCHANGED <<heap, workers>>

\* the class body of ScraperFactory has run: _registry = {}
InitDispatch ==
    /\ registry = << >>
    /\ products = {}
    /\ price_histories = {}
    /\ clock = 0
    /\ pc = "idle"
    /\ entry = ""
    /\ url = << >>
    /\ scraper = None
    /\ script = << >>
    /\ attempt = 0
    /\ calls = 0
    /\ slept = 0
    /\ html = None
    /\ error = None
    /\ product_data = None
    /\ ret = ""
    /\ heap = ClassDicts
    /\ workers = [w \in Workers |-> None]

NextDispatch ==
    \/ DiscoverScrapers
    \/ \E d \in Domains, c \in Classes : Register(d, c)
    \/ \E u \in DispatchUrls : GetScraper(u)

SpecDispatch == InitDispatch /\ [][NextDispatch]_vars

\* --------------------------------------------------------------------------
(* The properties checked of the scrape pipeline (Spec, SpecFetch). *)

\* a scrape has been started and its fetch is over
FetchEnded == scraper # None /\ pc # "fetch"

\* the fetch raised: _fetch_page leaves no body behind
FetchRaised == FetchEnded /\ html = None

\* scrape() returned a record, the latest one being product_data
Returned == product_data # None

\* the text holds one of the two markers, whatever its case
HoldsMarker(text) ==
    \E i \in 1..Len(text) :
        \/ IsPrefixAt(captcha, Lower(text), i)
        \/ IsPrefixAt(robot_check, Lower(text), i)

\* the failures of a request: connection error, timeout, non-2xx status
NetworkFailures == {"ConnectionError", "Timeout", "HTTPError"}

\* C1: an extracted price that is 0 or negative never comes back from
\* scrape() in a record, and no stored price is 0 or negative.
C1_NonPositivePriceRejected ==
    /\ Returned => product_data.price.n > 0
    /\ \A h \in price_histories : h.price.n > 0

\* C2: when attempt k <= 3 is the first to get a 2xx body without a marker,
\* every earlier one having been challenged or having failed, the fetch
\* returns that body after exactly k requests and raises nothing.
C2_ChallengeRecovery ==
    (/\ FetchEnded
     /\ script # << >>
     /\ Len(script) <= max_retries
     /\ script[Len(script)] \in Clean
     /\ \A k \in 1..(Len(script) - 1) : script[k] \in Bad)
        => /\ html = script[Len(script)].page
           /\ calls = Len(script)
           /\ pc = "extract" => error = None

C2_Witness ==
    /\ pc = "extract"
    /\ Len(script) = 2
    /\ script[1] = Served(CaptchaPage)
    /\ html = OkPage
    /\ calls = 2

\* the state part of C3
FetchBounded ==
    /\ calls <= max_retries
    /\ pc = "fetch" => calls < max_retries
    /\ pc = "extract" => html # None /\ error = None
    /\ FetchRaised => error # None /\ IsInstance(error.cls, "Exception")

\* C3: one fetch makes at most 3 requests, always ends, and ends with a body
\* or with an error, never with neither.
C3_FetchTerminates ==
    /\ []FetchBounded
    /\ (pc = "fetch") ~> FetchEnded

C3_Witness ==
    /\ FetchRaised
    /\ calls = max_retries
    /\ Len(script) = max_retries
    /\ script[1].kind = "fail"
    /\ script[2].kind = "page"
    /\ error # None

\* C4: the error of a fetch that ran out of attempts on a challenged body is
\* of a kind no network or HTTP failure is an instance of.
C4_ChallengeErrorDistinct ==
    (/\ FetchRaised
     /\ calls = max_retries
     /\ Len(script) = max_retries
     /\ script[max_retries] \in {Served(p) : p \in ChallengePages})
        => \A n \in NetworkFailures : ~IsInstance(n, error.cls)

\* C5: no body that holds "captcha" or "robot check", in any case, leaves
\* the fetch: whatever attempt met it, extraction never sees it.
C5_NoChallengedBody ==
    /\ html # None => ~HoldsMarker(ResponseText(html))
    /\ (FetchEnded /\ calls >= 1 /\ calls <= Len(script)
          /\ script[calls].kind = "page" /\ HoldsMarker(ResponseText(script[calls].page)))
        => FetchRaised

C5_Witness ==
    /\ FetchRaised
    /\ calls = max_retries
    /\ script[max_retries] = Served(CaptchaPage)
    /\ ~Contains(captcha, ResponseText(CaptchaPage))

\* C6: for a URL that starts with neither http:// nor https://, no entry
\* point starts a request and none sleeps between retries.
C6_NonHttpRejectedBeforeFetch ==
    (entry # "" /\ ~HasHttpPrefix(url)) => calls = 0 /\ slept = 0

\* C9: the store is written only when the scrape of that URL has returned a
\* validated record: no step before that and no failed scrape changes it.
C9_StoreOnlyAfterScrape ==
    [][(products' # products \/ price_histories' # price_histories)
         => (pc = "scraped" /\ Returned /\ product_data.url = url)]_vars

\* C10: the name of every record scrape() returns is non-empty.
C10_NameNonEmpty == Returned => product_data.name # << >>

\* --------------------------------------------------------------------------
(* The properties checked of the dispatcher (SpecDispatch). *)

\* the positions of the registered keys that are substrings of host
MatchingKeys(reg, host) == {i \in 1..Len(reg) : Contains(reg[i].key, host)}

\* C7: for a URL whose host holds none of the registered keys, get_scraper
\* gives a GenericScraper for that URL.
C7_DispatcherFallback ==
    (entry = "get_scraper" /\ MatchingKeys(registry, Netloc(url)) = {})
        => /\ scraper # None
           /\ scraper.cls = "GenericScraper"
           /\ scraper.url = url

C7_Witness ==
    /\ entry = "get_scraper"
    /\ url = ShopUrl
    /\ Len(registry) >= 3
    /\ MatchingKeys(registry, Netloc(url)) = {}
    /\ scraper.cls = "GenericScraper"

\* C8: get_scraper gives the strategy of the first key, in registration
\* order, that is a substring of the host, and register maps every domain
\* of a list to the strategy the list is registered with.
C8_DispatcherSelection ==
    /\ (entry = "get_scraper" /\ MatchingKeys(registry, Netloc(url)) # {})
         => /\ scraper.cls = registry[Min(MatchingKeys(registry, Netloc(url)))].cls
            /\ scraper.url = url
    /\ \A d \in ListDomains, c \in Classes :
         \A k \in 1..Len(d.keys) :
            \E i \in 1..Len(register(registry, d, c)) :
               /\ register(registry, d, c)[i].key = d.keys[k]
               /\ register(registry, d, c)[i].cls = c

C8_Witness ==
    /\ entry = "get_scraper"
    /\ \E i, j \in MatchingKeys(registry, Netloc(url)) :
          i < j /\ registry[i].cls # registry[j].cls
    /\ scraper.cls = registry[Min(MatchingKeys(registry, Netloc(url)))].cls
    /\ \E i, j \in 1..Len(registry) :
          /\ registry[i].key = <<"amazon", ".com">>
          /\ registry[j].key = <<"amazon", ".in">>
          /\ registry[i].cls = registry[j].cls

\* --------------------------------------------------------------------------
(* Properties of the extraction. *)

Codes == {"USD", "EUR", "GBP", "JPY", "INR"}

\* the markup shows one of the five currency glyphs
HoldsGlyph(page) ==
    \E i \in 1..Len(ResponseText(page)) : ResponseText(page)[i] \in Glyphs

CountryFragments == {".in", ".uk", ".de", ".fr", ".it", ".es"}

\* no country fragment anywhere in the URL
NoUrlSignal(u) == \A i \in 1..Len(u) : Lower(u)[i] \notin CountryFragments

\* C11: every record scrape() returns carries one of the five currency
\* codes, never a glyph or another string, and carries USD when the document
\* shows no known glyph and the URL holds no country fragment.
C11_CurrencyIsCode ==
    pc = "scraped" =>
        /\ product_data.currency \in Codes
        /\ (~HoldsGlyph(html) /\ NoUrlSignal(scraper.url)) =>
               product_data.currency = "USD"

\* a whole/fraction pair behind the unknown symbol on a URL without a
\* country fragment came back with USD
C11_Witness ==
    /\ pc = "scraped"
    /\ html = WholeFractionPage(<< >>, <<"9", "9">>, <<SymbolElem(<<"₩">>)>>)
    /\ scraper.url = ShopUrl
    /\ product_data.currency = "USD"

\* C12: on a document whose only price elements are the whole/fraction pair
\* "1,299" and "99", the generic strategy returns the price 1299.99.
C12_WholeFractionJoined ==
    (/\ pc \in {"scraped", "raised"}
     /\ scraper.cls = "GenericScraper"
     /\ html = WholeFractionPage(<<"1", ",", "2", "9", "9">>, <<"9", "9">>, << >>))
        => (pc = "scraped" /\ product_data.price = [n |-> 129999, d |-> 2])

\* C13: a price element whose text is a price string written twice gives,
\* under the generic strategy, the value of one copy of that string.
C13_DuplicateRepaired ==
    \A s \in BasePrices :
        (/\ pc \in {"scraped", "raised"}
         /\ scraper.cls = "GenericScraper"
         /\ html = PricePage(s \o s))
            => /\ pc = "scraped"
               /\ product_data.price = float(Without(GenericClean(s), {","}))

\* "37490.0037490.00" came back as 37490.00
C13_Witness ==
    /\ pc = "scraped"
    /\ scraper.cls = "GenericScraper"
    /\ html = PricePage(<<"3", "7", "4", "9", "0", ".", "0", "0",
                          "3", "7", "4", "9", "0", ".", "0", "0">>)
    /\ product_data.price = [n |-> 37490, d |-> 0]

\* the currency the host of u stands for
HostCurrency(u) ==
    LET host == Lower(Netloc(u))
        Has(xs) == \E i \in 1..Len(host) : host[i] \in xs
    IN  IF Has({".in"}) THEN "INR"
        ELSE IF Has({".uk"}) THEN "GBP"
        ELSE IF Has({".de", ".fr", ".it", ".es"}) THEN "EUR"
        ELSE "USD"

\* C14: a record extracted from a document that shows no currency glyph and
\* no symbol element carries the currency of the URL's host: INR for ".in",
\* GBP for ".uk", EUR for ".de", ".fr", ".it" and ".es", whatever the path holds.
C14_CurrencyByHost ==
    (/\ pc = "scraped"
     /\ ~HoldsGlyph(html)
     /\ select_one(html, SpanSymbol) = None)
        => product_data.currency = HostCurrency(scraper.url)

\* a record without its timestamp
SansTimestamp(d) == IF d = None THEN None ELSE [d EXCEPT !.timestamp = 0]

ExtractionErrors == {"ValueError", "IndexError", "TypeError", "ValidationError"}

\* C16: once the fetch of a scrape has ended, the scrape makes no further
\* request: the document is extracted and validated in one step that ends
\* with the record or with the exception raised out of scrape(), and the
\* caller of scrape() gets the one or the other.
C16_ExtractionFailureTerminal ==
    [][/\ pc \in {"extract", "scraped", "raised"} => (pc' # "fetch" /\ calls' \in {calls, 0})
       /\ pc = "extract" =>
             /\ pc' \in {"scraped", "raised"}
             /\ pc' = "raised" => (error' # None /\ error'.cls \in ExtractionErrors)
       /\ pc \in {"scraped", "raised"} => pc' = "idle"
       /\ (pc = "raised" /\ entry = "scrape") => ret' = "raise"]_vars

\* a page that came at the second request held no price: scrape() raised
\* ValueError after two requests
C16_Witness ==
    /\ pc = "raised"
    /\ html # None
    /\ error = [cls |-> "ValueError"]
    /\ calls = 2

\* C20: a pass of the fetch loop that is followed by another pass has
\* waited 2 * n seconds, n being the number of the attempt that failed, and
\* a pass that ends the fetch has not waited.
C20_LinearBackoff ==
    [][pc = "fetch" =>
          /\ pc' = "fetch" =>
                (attempt' = attempt + 1 /\ slept' = slept + 2 * (attempt + 1))
          /\ pc' # "fetch" => slept' = slept]_vars

\* the third attempt is about to start, after waits of 2 and 4 seconds
C20_Witness == pc = "fetch" /\ attempt = 2 /\ slept = 6

\* --------------------------------------------------------------------------
(* Properties of the store. *)

Range(f) == {f[i] : i \in DOMAIN f}

\* the row that a step that added one has added for URL u
Added(u) ==
    IF price_histories' # price_histories /\ product_data'.url = u
    THEN {PriceHistory(product_data')}
    ELSE {}

\* C19: after every step, the history of a URL holds the rows it held
\* before and the row just added for that URL, rows of that URL only, in
\* strictly ascending order of timestamp, and the latest price of the URL is
\* the last row of its history, or nothing when the history is empty.
C19_PersistenceContract ==
    [][\A u \in StoreUrls :
          LET before == get_price_history(price_histories, u, None)
              after == get_price_history(price_histories', u, None)
          IN  /\ Range(after) = Range(before) \cup Added(u)
              /\ \A i \in 1..Len(after) : after[i].product_url = u
              /\ \A i \in 1..Len(after), j \in 1..Len(after) :
                    i < j => after[i].timestamp < after[j].timestamp
              /\ get_latest_price(price_histories', u) =
                    IF after = << >> THEN None ELSE after[Len(after)]]_vars

\* a history of two rows, the older of them added last, was read, with a
\* row of the other URL in the store
C19_Witness ==
    /\ ret = "history"
    /\ Len(get_price_history(price_histories, url, None)) = 2
    /\ product_data = [url |-> url, name |-> <<"W">>, price |-> [n |-> 5, d |-> 0],
                       currency |-> "USD", main_image_url |-> None, timestamp |-> 0]
    /\ get_price_history(price_histories, url, None)[1] = PriceHistory(product_data)
    /\ \E r \in price_histories : r.product_url # url

\* --------------------------------------------------------------------------
(* Properties of concurrent scrapes. *)

Live == {w \in Workers : workers[w] # None}

\* C17: no step of any worker, be it get_scraper or a step of scrape(),
\* changes the registry that discovery left.
C17_RegistryReadOnly == [][registry' = registry]_vars

\* both workers are in the middle of a scrape, one of them for a URL of a
\* registered domain and one for a URL of none, and the registry is as
\* discovery left it
C17_Witness ==
    /\ Live = Workers
    /\ {workers[w].scraper.cls : w \in Workers} = {"Scraper", "GenericScraper"}
    /\ \A w \in Workers : workers[w].calls > 0
    /\ registry = discover_scrapers(<< >>)

\* C18: the dict DEFAULT_HEADERS is never changed; every running scrape has
\* a header dict of its own, which is neither DEFAULT_HEADERS nor the dict of
\* another scrape, and that dict holds what this scrape itself has set.
C18_ScrapesIsolated ==
    /\ heap[ClassHeaders] = DefaultHeaders
    /\ \A w \in Live :
          /\ workers[w].headers # ClassHeaders
          /\ \A v \in Live \ {w} : workers[v].headers # workers[w].headers
          /\ heap[workers[w].headers] = workers[w].scraper.headers

\* two scrapes run side by side, one having rotated its User-Agent and
\* added the Referer, the other still with the headers it was built with
C18_Witness ==
    /\ Live = Workers
    /\ \E w \in Workers, v \in Workers :
          /\ workers[w].scraper.headers.referer
          /\ workers[w].attempt = 2
          /\ ~workers[v].scraper.headers.referer
          /\ workers[v].calls = 1
          /\ workers[v].scraper.headers.ua # workers[w].scraper.headers.ua

\* --------------------------------------------------------------------------
(* Properties of the retry envelope. *)

\* C21: one fetch never sleeps more than 2 + 4 = 6 seconds in all, and a
\* fetch whose three attempts all failed or were challenged has slept
\* exactly that long when it raises.
C21_SleepEnvelope ==
    /\ slept <= 6
    /\ FetchRaised => (calls = 3 /\ slept = 6)

\* a fetch has raised after three requests and 6 seconds of sleep
C21_Witness == FetchRaised /\ pc = "raised" /\ calls = 3 /\ slept = 6

\* the envelope as 2 + 4 + 6: a fetch whose attempts all failed has slept
\* 12 seconds
C21_WorstCaseTwelve ==
    /\ slept <= 12
    /\ FetchRaised => slept = 12

\* --------------------------------------------------------------------------
(* Properties of the tier order. *)

\* the price of the Amazon strategy with its tiers in the documented order:
\* selector list, whole/fraction pair, JSON price fields of the raw markup,
\* "Buy New" section, on whatever URL
DocumentedAmazonPrice(page, u) ==
    OrElse(AmazonPriceFrom(page, u, 1),
      OrElse(AmazonWholeFraction(page, u),
        OrElse(RawPriceFrom(price_patterns(page), 1), AmazonBuyNew(page, u))))

\* what the run that has just ended gave for the price: the number, or
\* ValueError
PriceGot == IF pc = "scraped" THEN product_data.price ELSE ValueError

\* the number of a tier's result, or ValueError
PriceOf(r) == IF r = ValueError THEN ValueError ELSE r.price

\* C22: on a document that shows no rupee sign, the Amazon strategy gives
\* the price of the first tier that yields a number, the tiers taken in the
\* order selector list, whole/fraction pair, JSON price fields, "Buy New"
\* section, on every URL it is dispatched for.
C22_AmazonTierOrder ==
    (/\ pc \in {"scraped", "raised"}
     /\ scraper.cls = "Scraper"
     /\ ~HoldsGlyph(html))
        => PriceGot = PriceOf(DocumentedAmazonPrice(html, scraper.url))

\* the selectors of the generic list that match an element with text in it
NonEmptyMatches(page) ==
    {i \in 1..Len(PRICE_SELECTORS) :
        /\ select_one(page, PRICE_SELECTORS[i]) # None
        /\ Strip(select_one(page, PRICE_SELECTORS[i]).text) # << >>}

\* the price the first such selector decides; without one, or without a
\* number in its element, the price of the whole/fraction tier
FirstMatchPrice(page, u) ==
    IF NonEmptyMatches(page) = {} THEN PriceOf(GenericWholeFraction(page, u))
    ELSE PriceOf(OrElse(GenericElementPrice(
                          select_one(page, PRICE_SELECTORS[Min(NonEmptyMatches(page))]), u),
                        GenericWholeFraction(page, u)))

\* C23: the generic strategy gives the price of the first selector in list
\* order whose element has text; no later selector decides the price once
\* an earlier one has matched such an element, and the whole/fraction tier
\* is used only when the selectors gave no price.
C23_FirstNonEmptyMatchWins ==
    (pc \in {"scraped", "raised"} /\ scraper.cls = "GenericScraper")
        => PriceGot = FirstMatchPrice(html, scraper.url)

\* C24: a record whose price came from a price element that shows a
\* currency glyph carries the code of that glyph, under both strategies and
\* whatever the URL is.
C24_GlyphDecides ==
    \A s \in BasePrices :
        (pc = "scraped" /\ html = PricePage(s) /\ FirstGlyph(s) # "")
            => product_data.currency = currency_map(FirstGlyph(s))

\* --------------------------------------------------------------------------
(* Properties of the instance after a fetch. *)

\* C25: when _fetch_page has returned or raised, the instance's headers are
\* those it was constructed with: no Referer, which DEFAULT_HEADERS does not
\* hold and __init__ does not set.
C25_HeadersRestored == FetchEnded => ~scraper.headers.referer

\* --------------------------------------------------------------------------
(* Properties of the batch runs. *)

\* the URL whose check_product runner r is in the middle of
InFlight(r) ==
    IF workers[r] # None /\ workers[r].pc = "checking"
    THEN {workers[r].products[workers[r].i]}
    ELSE {}

\* C26: the price-check job and the daily-report job never have a
\* check_product for the same URL in progress at the same time.
C26_OneScrapePerUrl == InFlight("price_check_job") \cap InFlight("daily_report_job") = {}

Done(r) == workers[r] # None /\ workers[r].pc = "done"

RECURSIVE SuccessCounts(_)
\* the success counts of the runs of the runners of R, added up
SuccessCounts(R) ==
    IF R = {} THEN 0
    ELSE LET r == CHOOSE x \in R : TRUE
         IN (IF workers[r] = None THEN 0 ELSE workers[r].success_count)
            + SuccessCounts(R \ {r})

\* the products attempted by a run so far are the first ones of its snapshot,
\* each once and in order, and all of them once the run is over
AttemptsSnapshot(r) ==
    workers[r] # None =>
       /\ Len(workers[r].attempted) <= Len(workers[r].products)
       /\ workers[r].attempted = SubSeq(workers[r].products, 1, Len(workers[r].attempted))
       /\ workers[r].success_count <= Len(workers[r].attempted)
       /\ Done(r) => workers[r].attempted = workers[r].products

\* C27: a run of check_all_products or scrape_all_products attempts every
\* product of its snapshot exactly once, failures included, counts one
\* success for each record stored, and comes to its end.
C27_BatchAttemptsAll ==
    /\ [](\A r \in Runners : AttemptsSnapshot(r))
    /\ [](SuccessCounts(Runners) = Cardinality(price_histories))
    /\ \A r \in Runners : Running(r) ~> Done(r)

\* a finished run of two products whose first check failed and whose second
\* check stored the only record there is
C27_Witness ==
    \E r \in Runners :
       /\ Done(r)
       /\ Len(workers[r].products) = 2
       /\ workers[r].success_count = 1
       /\ \A q \in Runners \ {r} : Done(q) /\ workers[q].success_count = 0
       /\ \A row \in price_histories : row.product_url = workers[r].products[2]

C29_ReferentialIntegrity ==
    /\ [](\A r \in price_histories : r.product_url \in products)
    /\ [][/\ entry' = "add_price" =>
               /\ url' \in products'
               /\ products' = products \cup {url'}
          /\ (entry' = "delete_product" /\ url' \in products) =>
               /\ ret' = "True"
               /\ products' = products \ {url'}
               /\ price_histories' = price_histories \ RowsOf(price_histories, url')
          /\ (entry' = "delete_product" /\ url' \notin products) =>
               /\ ret' = "False"
               /\ products' = products
               /\ price_histories' = price_histories]_vars

\* a product with a history row was deleted while the other product kept its
\* rows
C29_Witness ==
    /\ entry = "delete_product"
    /\ ret = "True"
    /\ product_data # None
    /\ product_data.url = url
    /\ url \notin products
    /\ RowsOf(price_histories, url) = {}
    /\ price_histories # {}

\* --------------------------------------------------------------------------
(* Properties of the analysis. *)

\* C30: an alert is returned only for a URL of two history records or more;
\* its new_price is the latest record's price, its old_price is above its
\* new_price, and its drop_percentage is the threshold or more.
C30_AlertOnlyOnDrop ==
    (entry = "analyze_product" /\ ret.alert # None) =>
        LET history == get_price_history(price_histories, url, None)
        IN  /\ Len(history) >= 2
            /\ ret.alert.new_price = history[Len(history)].price
            /\ ~AtLeast(Fraction(ret.alert.new_price), Fraction(ret.alert.old_price))
            /\ AtLeast(ret.alert.drop_percentage, ret.threshold)

====
